---------------------------- MODULE Spec2Model ----------------------------
(***************************************************************************)
(* A model of the RadGraph report serialization                            *)
(* (src/report-radgraph-serialization) and of the queue of the generation  *)
(* layer (src/gpt-prompts-for-report-generation).                          *)
(*                                                                         *)
(* Python values are modelled as follows.                                  *)
(*   str (built by the code)  a sequence of atoms; an atom is a word or one*)
(*                            of the separators " ", "\n", ",".            *)
(*   str (a word)             a TLA+ string; Chars(w) gives its characters *)
(*                            where the code looks inside the word.        *)
(*   dict                     [keys |-> insertion order, at |-> mapping].  *)
(*   list / tuple             a sequence; Python index i is TLA+ index i+1.*)
(*   a call's outcome         [kind |-> "str" | "signal" | "raise", ...].  *)
(***************************************************************************)
EXTENDS Integers, Sequences, FiniteSets, TLC

VARIABLES
    pc,         \* position of the running call: "idle", "entities", "subgraphs", "done",
                \* and of main: "main", "main_done", "main_raised"; of the generation
                \* layer's main: "gen_loop", "gen_pool", "gen_raised"
    fn,         \* the function the last call applied
    obj,        \* the graph object handed to serialize_graph_report
    method,     \* its method argument
    separate,   \* its separate_findings argument
    work,       \* the object the serializer works on (obj, or obj_labeled)
    loop,       \* the serializer's loop: what is left to iterate
    ranges,     \* << (findings_start, findings_end), (impression_start, impression_end) >>
    report_dict,\* the four accumulators
    args,       \* arguments of a call to a helper function
    ret,        \* outcome of the last call
    csv,        \* the rows main has written to the CSV file
    example_ids,\* the IDs of the examples main has still to serialize
    prompts,    \* generation layer: the IDs whose prompt is still in the queue
    cache,      \* generation layer: the names of the files in the cache directory
    pool,       \* generation layer: the IDs a running pool has still to work on
    num_reports_generated,  \* generation layer: main's count of finished reports
    global_iter \* generation layer: main's count of rounds

\* the state of the generation layer (src/gpt-prompts-for-report-generation)
generation == <<prompts, cache, pool, num_reports_generated, global_iter>>

vars == <<pc, fn, obj, method, separate, work, loop, ranges, report_dict, args, ret, csv,
          example_ids, generation>>

-----------------------------------------------------------------------------
(* Bounds of the model. *)

MaxRelations == 3
MaxTokens == 6

-----------------------------------------------------------------------------
(* Outcomes of a call. *)

Str(s) == [kind |-> "str", val |-> s]
IntVal(n) == [kind |-> "int", val |-> n]
Signal(n) == [kind |-> "signal", val |-> n]
Raise(e) == [kind |-> "raise", val |-> e]
None == [kind |-> "none", val |-> 0]

ERROR_LABELS == -1
ERROR_METHOD == -2

-----------------------------------------------------------------------------
(* Python strings. *)

Range(s) == {s[i] : i \in 1..Len(s)}

Min(S) == CHOOSE x \in S : \A y \in S : x <= y

\* The characters of the words the code looks into.
Chars(w) ==
    CASE w = "" -> <<>>
      [] w = ":" -> <<":">>
      [] w = "U" -> <<"U">>
      [] w = "DP" -> <<"D", "P">>
      [] w = "DA" -> <<"D", "A">>
      [] w = "OBS" -> <<"O", "B", "S">>
      [] w = "OBS-DP" -> <<"O", "B", "S", "-", "D", "P">>
      [] w = "OBS-DA" -> <<"O", "B", "S", "-", "D", "A">>
      [] w = "OBS-U" -> <<"O", "B", "S", "-", "U">>
      [] w = "ANAT-DP" -> <<"A", "N", "A", "T", "-", "D", "P">>
      [] w = "U-DP" -> <<"U", "-", "D", "P">>
      [] w = "U-DA" -> <<"U", "-", "D", "A">>
      [] w = "FINDINGS" -> <<"F", "I", "N", "D", "I", "N", "G", "S">>
      [] w = "IMPRESSION" -> <<"I", "M", "P", "R", "E", "S", "S", "I", "O", "N">>
      [] w = "CONCLUSION" -> <<"C", "O", "N", "C", "L", "U", "S", "I", "O", "N">>
      [] w = "SUMMARY" -> <<"S", "U", "M", "M", "A", "R", "Y">>
      [] w = "AND" -> <<"A", "N", "D">>
      [] w = "no" -> <<"n", "o">>
      [] w = "acute" -> <<"a", "c", "u", "t", "e">>
      [] w = "normal" -> <<"n", "o", "r", "m", "a", "l">>
      [] w = "12" -> <<"1", "2">>
      [] w = "A_B" -> <<"A", "_", "B">>
      [] w = "CT." -> <<"C", "T", ".">>
      [] w = "At" -> <<"A", "t">>
      [] w = "T2" -> <<"T", "2">>
      [] w = "1" -> <<"1">>
      [] w = "2" -> <<"2">>
      [] w = "3" -> <<"3">>
      [] w = "9" -> <<"9">>
      [] w = "10" -> <<"1", "0">>
      [] w = "text" -> <<"t", "e", "x", "t">>
      [] w = "entities" -> <<"e", "n", "t", "i", "t", "i", "e", "s">>
      [] w = "labeler" -> <<"l", "a", "b", "e", "l", "e", "r">>
      [] w = "labeler_1" -> <<"l", "a", "b", "e", "l", "e", "r", "_", "1">>
      [] w = "labeler_2" -> <<"l", "a", "b", "e", "l", "e", "r", "_", "2">>
      [] w = "my_labeler" -> <<"m", "y", "_", "l", "a", "b", "e", "l", "e", "r">>
      [] w = "Labeler" -> <<"L", "a", "b", "e", "l", "e", "r">>
      [] w = "no_sep" -> <<"n", "o", "_", "s", "e", "p">>
      [] w = "NO_SEP" -> <<"N", "O", "_", "S", "E", "P">>
      [] w = "subgraphs" -> <<"s", "u", "b", "g", "r", "a", "p", "h", "s">>
      [] w = "Subgraphs" -> <<"S", "u", "b", "g", "r", "a", "p", "h", "s">>
      [] w = "bogus" -> <<"b", "o", "g", "u", "s">>
      [] w = "data_source" -> <<"d", "a", "t", "a", "_", "s", "o", "u", "r", "c", "e">>

\* Code point order of the characters used.
Alphabet ==
    <<"!", ",", "-", ".", "0", "1", "2", "3", "4", "5", "6", "7", "8", "9", ":",
      "A", "B", "C", "D", "E", "F", "G", "H", "I", "J", "K", "L", "M", "N", "O",
      "P", "Q", "R", "S", "T", "U", "V", "W", "X", "Y", "Z", "_",
      "a", "b", "c", "d", "e", "f", "g", "h", "i", "j", "k", "l", "m", "n", "o",
      "p", "q", "r", "s", "t", "u", "v", "w", "x", "y", "z">>

Ord(c) == CHOOSE i \in 1..Len(Alphabet) : Alphabet[i] = c

UpperChars ==
    {"A", "B", "C", "D", "E", "F", "G", "H", "I", "J", "K", "L", "M", "N", "O",
     "P", "Q", "R", "S", "T", "U", "V", "W", "X", "Y", "Z"}
LowerChars ==
    {"a", "b", "c", "d", "e", "f", "g", "h", "i", "j", "k", "l", "m", "n", "o",
     "p", "q", "r", "s", "t", "u", "v", "w", "x", "y", "z"}
DigitChars == {"0", "1", "2", "3", "4", "5", "6", "7", "8", "9"}

IsUpperChar(c) == c \in UpperChars
IsLowerChar(c) == c \in LowerChars
IsDigitChar(c) == c \in DigitChars

\* c.lower() for one character
LowerChar(c) ==
    IF IsUpperChar(c) THEN Alphabet[Ord(c) - Ord("A") + Ord("a")] ELSE c

\* w.lower(), for the words a method name can become
lower(w) ==
    LET lowered == [i \in 1..Len(Chars(w)) |-> LowerChar(Chars(w)[i])]
    IN  CHOOSE v \in {"no_sep", "subgraphs", "bogus"} : Chars(v) = lowered

\* sub in w
Contains(sub, w) ==
    LET s == Chars(sub)
        c == Chars(w)
    IN  \E i \in 0..(Len(c) - Len(s)) : \A j \in 1..Len(s) : c[i + j] = s[j]

\* w.isupper(): some cased character, and no lowercase one
IsUpper(w) ==
    LET c == Chars(w)
    IN  /\ \E i \in 1..Len(c) : IsUpperChar(c[i])
        /\ \A i \in 1..Len(c) : ~IsLowerChar(c[i])

\* w.isnumeric()
IsNumeric(w) ==
    LET c == Chars(w)
    IN  /\ Len(c) > 0
        /\ \A i \in 1..Len(c) : IsDigitChar(c[i])

\* a < b for two words (str comparison, by code point)
StrLess(a, b) ==
    LET x == Chars(a)
        y == Chars(b)
    IN  \E i \in 1..(Len(y)) :
            /\ \A j \in 1..(i - 1) : j <= Len(x) /\ x[j] = y[j]
            /\ \/ i = Len(x) + 1
               \/ i <= Len(x) /\ Ord(x[i]) < Ord(y[i])

IsSpace(a) == a \in {" ", "\n"}

\* s.strip() for a built string
RECURSIVE LStrip(_)
LStrip(s) == IF s # <<>> /\ IsSpace(Head(s)) THEN LStrip(Tail(s)) ELSE s

RECURSIVE RStrip(_)
RStrip(s) ==
    IF s # <<>> /\ IsSpace(s[Len(s)]) THEN RStrip(SubSeq(s, 1, Len(s) - 1)) ELSE s

Strip(s) == RStrip(LStrip(s))

\* s.split(" ") for a built string: the words between single spaces ("" between two)
RECURSIVE SplitFrom(_, _, _)
SplitFrom(s, cur, out) ==
    IF s = <<>> THEN Append(out, cur)
    ELSE IF Head(s) = " " THEN SplitFrom(Tail(s), "", Append(out, cur))
    ELSE SplitFrom(Tail(s), Head(s), out)

Split(s) == SplitFrom(s, "", <<>>)

\* " ".join(words), leaving out the empty words' atoms
RECURSIVE Join(_)
Join(words) ==
    IF words = <<>> THEN <<>>
    ELSE LET w == IF Head(words) = "" THEN <<>> ELSE <<Head(words)>>
         IN  IF Len(words) = 1 THEN w ELSE w \o <<" ">> \o Join(Tail(words))

-----------------------------------------------------------------------------
(* Python dicts. *)

Dict(keys, at) == [keys |-> keys, at |-> at]
EmptyDict == Dict(<<>>, <<>>)
HasKey(d, k) == k \in DOMAIN d.at

\* d[k] = v on a dict: a new key goes last, an old key keeps its place
SetItem(d, k, v) ==
    IF HasKey(d, k)
    THEN Dict(d.keys, [d.at EXCEPT ![k] = v])
    ELSE Dict(Append(d.keys, k), [x \in DOMAIN d.at \cup {k} |-> IF x = k THEN v ELSE d.at[x]])

-----------------------------------------------------------------------------
(* utils.get_suffix *)

get_suffix_no_priority(node_label, stem) ==
    IF Contains("U", node_label) THEN stem \o <<"uncertain">>
    ELSE IF Contains("DA", node_label) THEN stem \o <<"absent">>
    ELSE IF Contains("DP", node_label) THEN stem \o <<"present">>
    ELSE <<>>

get_suffix(node_label, stem) ==
    IF Contains("DP", node_label) THEN stem \o <<"present">>
    ELSE IF Contains("U", node_label) THEN stem \o <<"uncertain">>
    ELSE IF Contains("DA", node_label) THEN stem \o <<"absent">>
    ELSE <<>>

-----------------------------------------------------------------------------
(* graph_report.serialize_node *)

relation_precedence(relation_type) ==
    CASE relation_type = "located_at" -> 1
      [] relation_type = "modify" -> 2
      [] relation_type = "suggestive_of" -> 3

\* relation_queue[tuple(relation)]: the dict comprehension keeps, for a pair that
\* occurs more than once, the index of its last occurrence
relation_queue(relations, i) ==
    LET last == CHOOSE j \in 1..Len(relations) :
                    /\ relations[j] = relations[i]
                    /\ \A k \in (j + 1)..Len(relations) : relations[k] # relations[i]
    IN  <<relation_precedence(relations[i][1]), last>>

KeyLess(a, b) == a[1] < b[1] \/ (a[1] = b[1] /\ a[2] < b[2])

\* sorted(...) is stable: an element goes after the elements whose key is not greater
RECURSIVE InsertByKey(_, _, _)
InsertByKey(relations, sorted, i) ==
    IF sorted = <<>> THEN <<i>>
    ELSE IF KeyLess(relation_queue(relations, i), relation_queue(relations, Head(sorted)))
         THEN <<i>> \o sorted
         ELSE <<Head(sorted)>> \o InsertByKey(relations, Tail(sorted), i)

RECURSIVE SortedIndexes(_, _)
SortedIndexes(relations, n) ==
    IF n = 0 THEN <<>>
    ELSE InsertByKey(relations, SortedIndexes(relations, n - 1), n)

\* positions of the relations list in the order of sorted_relations
sorted_positions(relations) == SortedIndexes(relations, Len(relations))

sorted_relations(relations) ==
    [k \in 1..Len(relations) |-> relations[sorted_positions(relations)[k]]]

RECURSIVE Concat(_)
Concat(parts) == IF parts = <<>> THEN <<>> ELSE Head(parts) \o Concat(Tail(parts))

Tokens(graph_obj, node) == graph_obj.at[node].tokens

\* lines 128-154: the branches of serialize_node, given sorted_relations
render_node(graph_obj, source_node, sorted, stem) ==
    LET source_tokens == graph_obj.at[source_node].tokens
        relations == graph_obj.at[source_node].relations
        label == graph_obj.at[source_node].label
        all_relation_types == {relations[i][1] : i \in 1..Len(relations)}
        n == Len(relations)
        targets == {relations[i][2] : i \in 1..n}
        only_modify == all_relation_types = {"modify"} /\ n > 1
        only_located == all_relation_types = {"located_at"} /\ n > 1
        \* the targets the taken branch looks up in graph_obj
        looked_up ==
            IF n = 0 THEN {}
            ELSE IF only_modify THEN targets
            ELSE IF only_located THEN (IF Contains("DP", label) THEN targets ELSE {})
            ELSE targets
        node_serialization ==
            IF n = 0 THEN <<source_tokens, " ">>
            ELSE IF only_modify
            THEN Concat([k \in 1..n |-> <<Tokens(graph_obj, sorted[k][2]), " ">>])
                    \o <<source_tokens, " ">>
            ELSE IF only_located
            THEN <<source_tokens, " ">>
                    \o (IF Contains("DP", label)
                        THEN Concat([k \in 1..n |->
                                <<sorted[k][1], " ", Tokens(graph_obj, sorted[k][2]), " ">>])
                        ELSE <<>>)
            ELSE Concat([k \in 1..n |->
                    (IF sorted[k][1] = "modify"
                     THEN <<source_tokens, " ", Tokens(graph_obj, sorted[k][2]), " ">>
                     ELSE <<source_tokens, " ", sorted[k][1], " ",
                            Tokens(graph_obj, sorted[k][2]), " ">>)
                    \o (IF k # n THEN <<",", " ">> ELSE <<" ">>)])
    IN  IF \E t \in looked_up : ~HasKey(graph_obj, t)
        THEN Raise("KeyError")
        ELSE Str(node_serialization \o get_suffix(label, stem))

serialize_node(graph_obj, source_node, stem) ==
    render_node(graph_obj, source_node,
                sorted_relations(graph_obj.at[source_node].relations), stem)

-----------------------------------------------------------------------------
(* utils.section_start, utils.isHeaderPrefix, utils.section_end *)

\* tokens[i] for a Python index i (a negative index counts from the end)
Item(tokens, i) == IF i >= 0 THEN tokens[i + 1] ELSE tokens[Len(tokens) + i + 1]

Clip(i, n) == IF i < 0 THEN 0 ELSE IF i > n THEN n ELSE i

\* tokens[a:b] for 0 <= a
Slice(tokens, a, b) == SubSeq(tokens, Clip(a, Len(tokens)) + 1, Clip(b, Len(tokens)))

\* [header_token.strip() for header_token in header_name.split(" ")] + [":"]
header_tokens_of(header_name) == Split(header_name) \o <<":">>

RECURSIVE section_start_from(_, _, _)
section_start_from(tokens, header_tokens, token_ix) ==
    IF token_ix >= Len(tokens) THEN -1
    ELSE IF token_ix >= Len(tokens) - Len(header_tokens)
         THEN section_start_from(tokens, header_tokens, token_ix + 1)
    ELSE IF Slice(tokens, token_ix, token_ix + Len(header_tokens)) = header_tokens
         THEN token_ix
    ELSE section_start_from(tokens, header_tokens, token_ix + 1)

section_start(tokens, header_name) ==
    section_start_from(tokens, header_tokens_of(header_name), 0)

isHeaderPrefix(prefix) ==
    IF Range(Chars(prefix)) \cap {"_", "!", ",", "."} # {}
    THEN FALSE
    ELSE IF IsNumeric(prefix) \/ ~IsUpper(prefix) THEN FALSE
    ELSE TRUE

\* an "if" in the place of the "while": one step back at most
backtrack_one_step(tokens, ending_idx) ==
    IF ending_idx >= 1 /\ isHeaderPrefix(Item(tokens, ending_idx - 1))
    THEN ending_idx - 1
    ELSE ending_idx

RECURSIVE backtrack(_, _)
backtrack(tokens, ending_idx) ==
    IF ending_idx >= 1 /\ isHeaderPrefix(Item(tokens, ending_idx - 1))
    THEN backtrack(tokens, ending_idx - 1)
    ELSE ending_idx

\* without the test that keeps an end away from the section's own header
RECURSIVE section_end_from_unguarded(_, _, _, _)
section_end_from_unguarded(tokens, section_start_idx, header_name, token_ix) ==
    LET section_content_start == section_start_idx + Len(header_tokens_of(header_name))
    IN  IF section_content_start + token_ix >= Len(tokens) THEN Len(tokens)
        ELSE LET token == Item(tokens, section_content_start + token_ix)
                 prefix == Item(tokens, section_content_start + token_ix - 1)
                 ending_idx == backtrack(tokens, token_ix + section_content_start)
             IN  IF token = ":" /\ isHeaderPrefix(prefix)
                 THEN ending_idx
                 ELSE section_end_from_unguarded(tokens, section_start_idx, header_name,
                                                 token_ix + 1)

RECURSIVE section_end_from(_, _, _, _)
section_end_from(tokens, section_start_idx, header_name, token_ix) ==
    LET section_content_start == section_start_idx + Len(header_tokens_of(header_name))
    IN  IF section_content_start + token_ix >= Len(tokens) THEN Len(tokens)
        ELSE LET token == Item(tokens, section_content_start + token_ix)
                 prefix == Item(tokens, section_content_start + token_ix - 1)
                 ending_idx == backtrack(tokens, token_ix + section_content_start)
             IN  IF /\ token = ":"
                    /\ isHeaderPrefix(prefix)
                    /\ ending_idx - 1 # section_start_idx + Len(Split(header_name))
                 THEN ending_idx
                 ELSE section_end_from(tokens, section_start_idx, header_name, token_ix + 1)

section_end(tokens, section_start_idx, header_name) ==
    section_end_from(tokens, section_start_idx, header_name, 0)

-----------------------------------------------------------------------------
(* utils.locate_findings_impression *)

FINDINGS_HEADER == <<"FINDINGS">>
IMPRESSION_HEADER == <<"IMPRESSION">>
CONCLUSION_HEADER == <<"CONCLUSION">>
SUMMARY_HEADER == <<"SUMMARY">>
COMBINED_HEADER == <<"FINDINGS", " ", "AND", " ", "IMPRESSION">>

impression_headers == <<IMPRESSION_HEADER, CONCLUSION_HEADER, SUMMARY_HEADER>>

\* the for loop over impression_headers, from the k-th header on: the start index
\* of the first header found, or -1 from the last one tried
RECURSIVE impression_start_from(_, _)
impression_start_from(tokens, k) ==
    LET impression_start_idx == section_start(tokens, impression_headers[k])
    IN  IF impression_start_idx # -1 \/ k = Len(impression_headers)
        THEN impression_start_idx
        ELSE impression_start_from(tokens, k + 1)

locate_findings_impression(report_text) ==
    LET tokens == Split(report_text)
        findings_and_impression_idx == section_start(tokens, COMBINED_HEADER)
        section_end_idx == section_end(tokens, findings_and_impression_idx, COMBINED_HEADER)
        findings_start_idx == section_start(tokens, FINDINGS_HEADER)
        impression_start_idx == impression_start_from(tokens, 1)
        findings_end_idx ==
            IF findings_start_idx # -1
            THEN section_end(tokens, findings_start_idx, FINDINGS_HEADER) ELSE -1
        impression_end_idx ==
            IF impression_start_idx # -1
            THEN section_end(tokens, impression_start_idx, IMPRESSION_HEADER) ELSE -1
    IN  IF findings_and_impression_idx # -1
        THEN <<<<findings_and_impression_idx, section_end_idx>>,
               <<findings_and_impression_idx, section_end_idx>>>>
        ELSE <<<<findings_start_idx, findings_end_idx>>,
               <<impression_start_idx, impression_end_idx>>>>

-----------------------------------------------------------------------------
(* utils.categorize_node, utils.categorize_subgraph *)

Section(name) == [kind |-> "section", val |-> name]

\* "<=" in the place of "<" at the end of a range
categorize_node_inclusive_end(o, node, findings_idx_range, impression_idx_range) ==
    LET entities == o.at["entities"]
        findings_start == findings_idx_range[1]
        findings_end == findings_idx_range[2]
        impression_start == impression_idx_range[1]
        impression_end == impression_idx_range[2]
    IN  IF ~HasKey(entities, node) THEN Raise("KeyError")
        ELSE LET start_idx == entities.at[node].start_ix
                 end_idx == entities.at[node].end_ix
             IN  IF findings_start = -1 /\ impression_start = -1 THEN Raise("ValueError")
                 ELSE IF findings_start = impression_start THEN Raise("ValueError")
                 ELSE IF findings_start = -1 /\ impression_start # -1
                      THEN (IF start_idx >= impression_start /\ end_idx <= impression_end
                            THEN Section("IMPRESSION") ELSE Section("FINDINGS"))
                 ELSE IF start_idx >= findings_start /\ end_idx <= findings_end
                      THEN Section("FINDINGS")
                 ELSE Section("IMPRESSION")

\* obj is the graph object; obj.at["entities"] its entity map
categorize_node(o, node, findings_idx_range, impression_idx_range) ==
    LET entities == o.at["entities"]
        findings_start == findings_idx_range[1]
        findings_end == findings_idx_range[2]
        impression_start == impression_idx_range[1]
        impression_end == impression_idx_range[2]
    IN  IF ~HasKey(entities, node) THEN Raise("KeyError")
        ELSE LET start_idx == entities.at[node].start_ix
                 end_idx == entities.at[node].end_ix
             IN  IF findings_start = -1 /\ impression_start = -1 THEN Raise("ValueError")
                 ELSE IF findings_start = impression_start THEN Raise("ValueError")
                 ELSE IF findings_start = -1 /\ impression_start # -1
                      THEN (IF start_idx >= impression_start /\ end_idx < impression_end
                            THEN Section("IMPRESSION") ELSE Section("FINDINGS"))
                 ELSE IF start_idx >= findings_start /\ end_idx < findings_end
                      THEN Section("FINDINGS")
                 ELSE Section("IMPRESSION")

\* the tie-break turned to FINDINGS
categorize_subgraph_findings_tie(o, subgraph, findings_idx_range, impression_idx_range) ==
    LET results == {categorize_node(o, node, findings_idx_range, impression_idx_range) :
                        node \in subgraph.nodes}
        sections == {r.val : r \in {x \in results : x.kind = "section"}}
    IN  IF \E r \in results : r.kind = "raise"
        THEN CHOOSE r \in results : r.kind = "raise"
        ELSE IF sections = {"FINDINGS"} THEN Section("FINDINGS")
        ELSE IF sections = {"IMPRESSION"} THEN Section("IMPRESSION")
        ELSE Section("FINDINGS")

\* subgraph is [nodes |-> set of IDs, edges |-> set of pairs]
categorize_subgraph(o, subgraph, findings_idx_range, impression_idx_range) ==
    LET results == {categorize_node(o, node, findings_idx_range, impression_idx_range) :
                        node \in subgraph.nodes}
        sections == {r.val : r \in {x \in results : x.kind = "section"}}
    IN  IF \E r \in results : r.kind = "raise"
        THEN CHOOSE r \in results : r.kind = "raise"
        ELSE IF sections = {"FINDINGS"} THEN Section("FINDINGS")
        ELSE IF sections = {"IMPRESSION"} THEN Section("IMPRESSION")
        ELSE Section("IMPRESSION")

-----------------------------------------------------------------------------
(* utils.build_graph, utils.get_subgraphs *)

\* a networkx.DiGraph: nodes in insertion order, the attributes of the nodes that
\* were given some, and one relation_type per ordered pair of nodes
EmptyGraph == [nodes |-> <<>>, attr |-> <<>>, edges |-> <<>>]

add_node(G, n, label, tokens) ==
    [nodes |-> IF n \in Range(G.nodes) THEN G.nodes ELSE Append(G.nodes, n),
     attr |-> [x \in DOMAIN G.attr \cup {n} |->
                IF x = n THEN [label |-> label, tokens |-> tokens] ELSE G.attr[x]],
     edges |-> G.edges]

\* add_edge creates a missing end node, without attributes, and overwrites the
\* relation_type of an edge that is already there
add_edge(G, u, v, relation_type) ==
    LET with_u == IF u \in Range(G.nodes) THEN G.nodes ELSE Append(G.nodes, u)
        with_v == IF v \in Range(with_u) THEN with_u ELSE Append(with_u, v)
    IN  [nodes |-> with_v,
         attr |-> G.attr,
         edges |-> [e \in DOMAIN G.edges \cup {<<u, v>>} |->
                        IF e = <<u, v>> THEN relation_type ELSE G.edges[e]]]

RECURSIVE add_nodes(_, _, _)
add_nodes(G, entities, k) ==
    IF k > Len(entities.keys) THEN G
    ELSE LET entity_id == entities.keys[k]
         IN  add_nodes(add_node(G, entity_id, entities.at[entity_id].label,
                                entities.at[entity_id].tokens),
                       entities, k + 1)

RECURSIVE add_edges_of(_, _, _, _)
add_edges_of(G, entity_id, relations, r) ==
    IF r > Len(relations) THEN G
    ELSE add_edges_of(add_edge(G, entity_id, relations[r][2], relations[r][1]),
                      entity_id, relations, r + 1)

RECURSIVE add_edges(_, _, _)
add_edges(G, entities, k) ==
    IF k > Len(entities.keys) THEN G
    ELSE LET entity_id == entities.keys[k]
         IN  add_edges(add_edges_of(G, entity_id, entities.at[entity_id].relations, 1),
                       entities, k + 1)

build_graph(sample) ==
    add_edges(add_nodes(EmptyGraph, sample.at["entities"], 1), sample.at["entities"], 1)

\* edges followed from their source only
RECURSIVE plain_bfs_forward(_, _)
plain_bfs_forward(G, seen) ==
    LET next == seen \cup {e[2] : e \in {x \in DOMAIN G.edges : x[1] \in seen}}
    IN  IF next = seen THEN seen ELSE plain_bfs_forward(G, next)

\* the nodes reached from the set seen along edges taken in either direction
RECURSIVE plain_bfs(_, _)
plain_bfs(G, seen) ==
    LET next == seen \cup {e[2] : e \in {x \in DOMAIN G.edges : x[1] \in seen}}
                     \cup {e[1] : e \in {x \in DOMAIN G.edges : x[2] \in seen}}
    IN  IF next = seen THEN seen ELSE plain_bfs(G, next)

\* nx.weakly_connected_components: one component per node not yet seen, in node order
RECURSIVE weakly_connected_components(_, _, _)
weakly_connected_components(G, k, seen) ==
    IF k > Len(G.nodes) THEN <<>>
    ELSE IF G.nodes[k] \in seen THEN weakly_connected_components(G, k + 1, seen)
    ELSE LET c == plain_bfs(G, {G.nodes[k]})
         IN  <<c>> \o weakly_connected_components(G, k + 1, seen \cup c)

get_subgraphs(G) ==
    LET components == weakly_connected_components(G, 1, {})
    IN  [k \in 1..Len(components) |->
            [nodes |-> components[k],
             edges |-> {e \in DOMAIN G.edges :
                            e[1] \in components[k] /\ e[2] \in components[k]}]]

-----------------------------------------------------------------------------
(* graph_report.serialize_subgraph *)

DigitValue(c) == Ord(c) - Ord("0")

\* int(x) for a string of decimal digits
RECURSIVE IntOfDigits(_, _)
IntOfDigits(digits, acc) ==
    IF digits = <<>> THEN acc
    ELSE IntOfDigits(Tail(digits), 10 * acc + DigitValue(Head(digits)))

int(x) == IntOfDigits(Chars(x), 0)

\* sorted(nodes): the IDs compared as strings
RECURSIVE SortedByStr(_)
SortedByStr(nodes) ==
    IF nodes = {} THEN <<>>
    ELSE LET first == CHOOSE n \in nodes : \A m \in nodes \ {n} : StrLess(n, m)
         IN  <<first>> \o SortedByStr(nodes \ {first})

\* sorted(nodes, key = int), for IDs of distinct values
RECURSIVE SortedByInt(_)
SortedByInt(nodes) ==
    IF nodes = {} THEN <<>>
    ELSE LET first == CHOOSE n \in nodes : \A m \in nodes : int(n) <= int(m)
         IN  <<first>> \o SortedByInt(nodes \ {first})

RECURSIVE subgraph_out(_, _, _, _)
subgraph_out(G, sorted_nodes, out, previous_node_modified) ==
    IF sorted_nodes = <<>> THEN out
    ELSE LET node == Head(sorted_nodes)
             node_label == G.attr[node].label
             node_tokens == G.attr[node].tokens
         IN  IF Contains("DA", node_label) /\ ~previous_node_modified
             THEN subgraph_out(G, Tail(sorted_nodes),
                               <<"no", " ">> \o out \o <<node_tokens, " ">>, TRUE)
             ELSE IF Contains("U", node_label) /\ ~previous_node_modified
             THEN subgraph_out(G, Tail(sorted_nodes),
                               <<"maybe", " ">> \o out \o <<node_tokens, " ">>, TRUE)
             ELSE subgraph_out(G, Tail(sorted_nodes),
                               out \o <<node_tokens, " ">>, previous_node_modified)

serialize_subgraph(subgraph, G) ==
    IF \E node \in subgraph.nodes : node \notin DOMAIN G.attr
    THEN Raise("KeyError")
    ELSE Str(subgraph_out(G, SortedByInt(subgraph.nodes), <<>>, FALSE))

-----------------------------------------------------------------------------
(* graph_report.serialize_graph_by_entities, graph_report.serialize_graph_by_subgraphs *)

Buckets == {"report", "FINDINGS", "IMPRESSION", "FINDINGS AND IMPRESSION"}

EmptyReportDict == [b \in Buckets |-> <<>>]

Ok(v) == [kind |-> "ok", val |-> v]

\* the merged section only when both starts are -1
sections_unified_absent_only(rngs) ==
    LET findings_start_idx == rngs[1][1]
        impression_start_idx == rngs[2][1]
    IN  findings_start_idx = -1 /\ impression_start_idx = -1

\* both loops put the item in the merged section when the two starts are equal
\* or both -1
sections_unified(rngs) ==
    LET findings_start_idx == rngs[1][1]
        impression_start_idx == rngs[2][1]
    IN  \/ findings_start_idx = impression_start_idx
        \/ (findings_start_idx = -1 /\ impression_start_idx = -1)

\* one iteration of the loop of serialize_graph_by_entities
entities_iteration(o, method_name, rngs, rd, node) ==
    LET graph_obj == o.at["entities"]
        label == graph_obj.at[node].label
        stem_is == IF Len(graph_obj.at[node].relations) > 0 THEN <<"is", " ">> ELSE <<>>
        serialized ==
            IF method_name = "with_@_anat" /\ label # "ANAT-DP"
            THEN serialize_node(graph_obj, node, <<"@", " ">>)
            ELSE IF method_name = "with_anat" /\ label # "ANAT-DP"
            THEN serialize_node(graph_obj, node, stem_is)
            ELSE IF method_name = "no_sep"
            THEN serialize_node(graph_obj, node, <<"@", " ">>)
            ELSE None
        node_serialization ==
            IF serialized.kind = "str" THEN serialized.val \o <<"\n">> ELSE <<>>
        node_section ==
            IF sections_unified(rngs) THEN Section("FINDINGS AND IMPRESSION")
            ELSE categorize_node(o, node, rngs[1], rngs[2])
    IN  IF serialized.kind = "raise" THEN serialized
        ELSE IF node_section.kind = "raise" THEN node_section
        ELSE Ok([rd EXCEPT !["report"] = @ \o node_serialization,
                           ![node_section.val] = @ \o node_serialization])

\* one iteration of the loop of serialize_graph_by_subgraphs
subgraphs_iteration(o, rngs, rd, subgraph) ==
    LET serialized == serialize_subgraph(subgraph, build_graph(o))
        subgraph_section ==
            IF sections_unified(rngs) THEN Section("FINDINGS AND IMPRESSION")
            ELSE categorize_subgraph(o, subgraph, rngs[1], rngs[2])
    IN  IF serialized.kind = "raise" THEN serialized
        ELSE IF subgraph_section.kind = "raise" THEN subgraph_section
        ELSE Ok([rd EXCEPT !["report"] = @ \o Strip(serialized.val) \o <<"\n">>,
                           ![subgraph_section.val] = @ \o serialized.val \o <<"\n">>])

FINDINGS_LINE == <<"FINDINGS", " ", "\n">>
IMPRESSION_LINE == <<"IMPRESSION", " ", "\n">>
COMBINED_LINE == <<"FINDINGS", " ", "AND", " ", "IMPRESSION", " ", "\n">>

assemble_findings_first(rd, separate_findings_impression) ==
    IF separate_findings_impression = FALSE THEN rd["report"]
    ELSE IF rd["FINDINGS AND IMPRESSION"] # <<>>
    THEN COMBINED_LINE \o rd["FINDINGS AND IMPRESSION"]
    ELSE IF rd["FINDINGS"] # <<>>
    THEN FINDINGS_LINE \o rd["FINDINGS"]
    ELSE IF rd["FINDINGS"] = <<>> /\ rd["IMPRESSION"] # <<>>
    THEN IMPRESSION_LINE \o rd["IMPRESSION"]
    ELSE FINDINGS_LINE \o rd["FINDINGS"] \o <<"\n">> \o IMPRESSION_LINE \o rd["IMPRESSION"]

\* the if-chain that both serializers run after their loop
assemble(rd, separate_findings_impression) ==
    IF separate_findings_impression = FALSE THEN rd["report"]
    ELSE IF rd["FINDINGS AND IMPRESSION"] # <<>>
    THEN COMBINED_LINE \o rd["FINDINGS AND IMPRESSION"]
    ELSE IF rd["FINDINGS"] # <<>> /\ rd["IMPRESSION"] = <<>>
    THEN FINDINGS_LINE \o rd["FINDINGS"]
    ELSE IF rd["FINDINGS"] = <<>> /\ rd["IMPRESSION"] # <<>>
    THEN IMPRESSION_LINE \o rd["IMPRESSION"]
    ELSE FINDINGS_LINE \o rd["FINDINGS"] \o <<"\n">> \o IMPRESSION_LINE \o rd["IMPRESSION"]

RECURSIVE JoinComma(_)
JoinComma(words) ==
    IF words = <<>> THEN <<>>
    ELSE IF Len(words) = 1 THEN <<Head(words)>>
    ELSE <<Head(words), ",">> \o JoinComma(Tail(words))

RECURSIVE anat_structures_from(_, _)
anat_structures_from(graph_obj, k) ==
    IF k > Len(graph_obj.keys) THEN <<>>
    ELSE (IF graph_obj.at[graph_obj.keys[k]].label = "ANAT-DP"
          THEN <<graph_obj.at[graph_obj.keys[k]].tokens>> ELSE <<>>)
         \o anat_structures_from(graph_obj, k + 1)

\* the line appended under every method
anat_trailer_every_method(graph_obj, method_name) ==
    <<"Anatomical", " ", "structures", " ", "present:", " ">>
        \o JoinComma(anat_structures_from(graph_obj, 1)) \o <<"\n">>

\* the line the entity-level serializer appends for with_@_anat and with_anat
anat_trailer(graph_obj, method_name) ==
    IF method_name \in {"with_@_anat", "with_anat"}
    THEN <<"Anatomical", " ", "structures", " ", "present:", " ">>
            \o JoinComma(anat_structures_from(graph_obj, 1)) \o <<"\n">>
    ELSE <<>>

\* the rest of the loop of serialize_graph_by_entities over nodes
RECURSIVE entities_loop(_, _, _, _, _)
entities_loop(o, method_name, rngs, rd, nodes) ==
    IF nodes = <<>> THEN Ok(rd)
    ELSE LET step == entities_iteration(o, method_name, rngs, rd, Head(nodes))
         IN  IF step.kind = "raise" THEN step
             ELSE entities_loop(o, method_name, rngs, step.val, Tail(nodes))

serialize_graph_by_entities(o, method_name, separate_findings_impression) ==
    IF ~HasKey(o, "text") THEN Raise("KeyError")
    ELSE LET done == entities_loop(o, method_name, locate_findings_impression(o.at["text"]),
                                   EmptyReportDict, o.at["entities"].keys)
         IN  IF done.kind = "raise" THEN done
             ELSE Str(assemble(done.val, separate_findings_impression)
                        \o anat_trailer(o.at["entities"], method_name))

RECURSIVE subgraphs_loop(_, _, _, _)
subgraphs_loop(o, rngs, rd, subgraphs) ==
    IF subgraphs = <<>> THEN Ok(rd)
    ELSE LET step == subgraphs_iteration(o, rngs, rd, Head(subgraphs))
         IN  IF step.kind = "raise" THEN step
             ELSE subgraphs_loop(o, rngs, step.val, Tail(subgraphs))

serialize_graph_by_subgraphs(o, separate_findings_impression) ==
    IF ~HasKey(o, "text") THEN Raise("KeyError")
    ELSE LET done == subgraphs_loop(o, locate_findings_impression(o.at["text"]),
                                    EmptyReportDict, get_subgraphs(build_graph(o)))
         IN  IF done.kind = "raise" THEN done
             ELSE Str(assemble(done.val, separate_findings_impression))

-----------------------------------------------------------------------------
(* graph_report.serialize_graph_report *)

IsLabelerKey(key) == Contains("labeler", key)

\* [key for key in obj.keys() if "labeler" in key]
RECURSIVE labeler_keys_in(_)
labeler_keys_in(keys) ==
    IF keys = <<>> THEN <<>>
    ELSE (IF IsLabelerKey(Head(keys)) THEN <<Head(keys)>> ELSE <<>>)
            \o labeler_keys_in(Tail(keys))

\* sorted(keys) for distinct strings
RECURSIVE SortedStrings(_)
SortedStrings(keys) ==
    IF keys = {} THEN <<>>
    ELSE LET first == CHOOSE a \in keys : \A b \in keys \ {a} : StrLess(a, b)
         IN  <<first>> \o SortedStrings(keys \ {first})

labeler_keys_unsorted(o) == labeler_keys_in(o.keys)

labeler_keys(o) == SortedStrings(Range(labeler_keys_in(o.keys)))

obj_labeled_of_wrong_signal(o) ==
    IF HasKey(o, "entities") THEN Ok(o)
    ELSE IF Len(labeler_keys(o)) = 0 THEN Signal(ERROR_METHOD)
    ELSE Ok(SetItem(o, "entities", o.at[labeler_keys(o)[1]].at["entities"]))

\* obj_labeled = obj: one dict under two names, so the caller's dict gets the key
label_in_place(o, entities) ==
    [caller |-> SetItem(o, "entities", entities),
     labeled |-> SetItem(o, "entities", entities)]

\* lines 253-254: obj_labeled is a copy of obj, a dict of its own, and the
\* entities are stored in the copy; caller is the dict the caller still holds
label_copy(o, entities) ==
    [caller |-> o,
     labeled |-> SetItem(o, "entities", entities)]

\* lines 247-254: the object the serializers get, or the "no labels" signal
obj_labeled_of(o) ==
    IF HasKey(o, "entities") THEN Ok(o)
    ELSE IF Len(labeler_keys(o)) = 0 THEN Signal(ERROR_LABELS)
    ELSE Ok(label_copy(o, o.at[labeler_keys(o)[1]].at["entities"]).labeled)

\* the caller's dict after lines 247-254
obj_after_labeling(o) ==
    IF HasKey(o, "entities") \/ Len(labeler_keys(o)) = 0 THEN o
    ELSE label_copy(o, o.at[labeler_keys(o)[1]].at["entities"]).caller

\* relations.sort(key = ...): the list itself is put in order
relations_after_sort(relations) == sorted_relations(relations)

\* line 126: sorted() builds a new list, the list it is given stays as it is
relations_after_sorted(relations) == relations

\* the entity map after serialize_graph_by_entities has dealt with node: the
\* relations of node have gone through line 126 if serialize_node was called
entities_after_node(graph_obj, node, method_name) ==
    IF method_name = "no_sep"
        \/ (method_name \in {"with_@_anat", "with_anat"}
                /\ graph_obj.at[node].label # "ANAT-DP")
    THEN [graph_obj EXCEPT !.at[node].relations = relations_after_sorted(@)]
    ELSE graph_obj

\* the caller's dict when the entity map the serializer works on, which it shares
\* with the caller's dict (obj.copy() is shallow), has become entities
obj_sharing(o, entities) ==
    IF HasKey(o, "entities") THEN [o EXCEPT !.at["entities"] = entities]
    ELSE [o EXCEPT !.at[labeler_keys(o)[1]].at["entities"] = entities]

EntityMethods_or_any == {"no_sep", "with_anat", "with_@_anat", "bogus"}

EntityMethods == {"no_sep", "with_anat", "with_@_anat"}

serialize_graph_report(o, method_name, separate_findings) ==
    LET labeled == obj_labeled_of(o)
    IN  IF labeled.kind = "signal" THEN labeled
        ELSE IF method_name = "subgraphs"
        THEN serialize_graph_by_subgraphs(labeled.val, separate_findings)
        ELSE IF method_name \in EntityMethods
        THEN serialize_graph_by_entities(labeled.val, method_name, separate_findings)
        ELSE Signal(ERROR_METHOD)

-----------------------------------------------------------------------------
(* The state before any call. *)

NoRanges == <<<<-1, -1>>, <<-1, -1>>>>


\* every variable but the inputs a specification draws
Idle ==
    /\ pc = "idle"
    /\ fn = ""
    /\ work = EmptyDict
    /\ loop = <<>>
    /\ ranges = NoRanges
    /\ report_dict = EmptyReportDict
    /\ ret = None
    /\ csv = <<>>
    /\ example_ids = <<>>
    /\ prompts = <<>>
    /\ cache = {}
    /\ pool = {}
    /\ num_reports_generated = 0
    /\ global_iter = 0

NoObject ==
    /\ obj = EmptyDict
    /\ method = ""
    /\ separate = FALSE

-----------------------------------------------------------------------------
(* Calls of the section locator's helpers on bounded token lists. *)

SectionHeaders == {FINDINGS_HEADER, IMPRESSION_HEADER, COMBINED_HEADER}

SectionVocab == {"FINDINGS", ":", "AND", "IMPRESSION", "no"}

ExampleTokens == <<"FINDINGS", ":", "no", "acute", "IMPRESSION", ":", "normal">>

\* token lists with words the heuristic must tell from headers
MoreTokenLists ==
    {<<"FINDINGS", "AND", "IMPRESSION", ":", "no", "12", ":", "no", "IMPRESSION", ":", "no">>,
     <<"FINDINGS", ":", "no", "A_B", ":", "CT.", ":", "At", ":", "", ":", "T2", ":", "no">>,
     <<"IMPRESSION", ":", "no", "12", ":", "no", "FINDINGS", ":">>}

TokenLists ==
    UNION {[1..n -> SectionVocab] : n \in 0..MaxTokens}
        \cup {ExampleTokens} \cup MoreTokenLists

\* the header's words and a ":" token stand at Python index i of tokens
HeaderAt(tokens, header_name, i) ==
    /\ i >= 0
    /\ i + Len(header_tokens_of(header_name)) <= Len(tokens)
    /\ \A j \in 1..Len(header_tokens_of(header_name)) :
            tokens[i + j] = header_tokens_of(header_name)[j]

InitSection ==
    /\ Idle
    /\ NoObject
    /\ args \in {<<tokens, header_name>> : tokens \in TokenLists, header_name \in SectionHeaders}

CallSectionStart ==
    /\ fn = ""
    /\ fn' = "section_start"
    /\ ret' = IntVal(section_start(args[1], args[2]))
    /\ UNCHANGED <<pc, obj, method, separate, work, loop, ranges, report_dict, args, csv,
                   example_ids, generation>>

CallSectionEnd ==
    /\ fn = ""
    /\ \E section_start_idx \in 0..Len(args[1]) :
            /\ HeaderAt(args[1], args[2], section_start_idx)
            /\ fn' = "section_end"
            /\ args' = <<args[1], section_start_idx, args[2]>>
            /\ ret' = IntVal(section_end(args[1], section_start_idx, args[2]))
    /\ UNCHANGED <<pc, obj, method, separate, work, loop, ranges, report_dict, csv,
                   example_ids, generation>>

NextSection == CallSectionStart \/ CallSectionEnd

SpecSection == InitSection /\ [][NextSection]_vars

\* C9: section_start returns the smallest index at which the header's words and a
\* ":" token stand in the token list, and -1 exactly when there is no such index,
\* also when the header and its colon are the last tokens.
C9_SectionStartFirstMatch ==
    fn = "section_start" =>
        LET tokens == args[1]
            matches == {i \in 0..Len(tokens) : HeaderAt(tokens, args[2], i)}
        IN  ret.val = IF matches = {} THEN -1 ELSE Min(matches)

\* C10: section_end returns the beginning of the run of header-like tokens before
\* the first accepted ":" after the header's colon, a candidate being rejected when
\* its run begins right after the header's own colon; len(tokens) if none is
\* accepted.
RunBegin(tokens, colon) ==
    Min({b \in 0..colon : \A k \in b..(colon - 1) : isHeaderPrefix(Item(tokens, k))})

C10_SectionEndNextHeader ==
    fn = "section_end" =>
        LET tokens == args[1]
            content == args[2] + Len(Split(args[3])) + 1
            candidates == {c \in content..(Len(tokens) - 1) :
                            /\ Item(tokens, c) = ":"
                            /\ isHeaderPrefix(Item(tokens, c - 1))}
            accepted == {c \in candidates : RunBegin(tokens, c) # content}
        IN  /\ ret.val = IF accepted = {} THEN Len(tokens)
                         ELSE RunBegin(tokens, Min(accepted))
            /\ (tokens = ExampleTokens /\ args[2] = 0 /\ args[3] = FINDINGS_HEADER)
                    => ret.val = 4

C10_Witness ==
    /\ fn = "section_end"
    /\ args[1] = <<"FINDINGS", ":", "IMPRESSION", ":", "IMPRESSION", ":">>
    /\ args[2] = 0
    /\ args[3] = FINDINGS_HEADER
    /\ ret.val = 4

-----------------------------------------------------------------------------
(* A call of serialize_graph_report, one action per loop iteration. *)

Return(outcome) ==
    /\ ret' = outcome
    /\ pc' = "done"

\* lines 247-268 on the object o with the method m, up to the serializer's loop
Dispatch(o, m) ==
    LET labeled == obj_labeled_of(o)
    IN  IF labeled.kind = "signal"
        THEN Return(labeled) /\ UNCHANGED <<work, loop, ranges, report_dict>>
        ELSE IF m \notin EntityMethods \cup {"subgraphs"}
        THEN Return(Signal(ERROR_METHOD)) /\ UNCHANGED <<work, loop, ranges, report_dict>>
        ELSE IF ~HasKey(labeled.val, "text")
        THEN /\ Return(Raise("KeyError"))
             /\ work' = labeled.val
             /\ UNCHANGED <<loop, ranges, report_dict>>
        ELSE /\ work' = labeled.val
             /\ ranges' = locate_findings_impression(labeled.val.at["text"])
             /\ report_dict' = EmptyReportDict
             /\ ret' = ret
             /\ IF m = "subgraphs"
                THEN /\ pc' = "subgraphs"
                     /\ loop' = get_subgraphs(build_graph(labeled.val))
                ELSE /\ pc' = "entities"
                     /\ loop' = labeled.val.at["entities"].keys

Call ==
    /\ pc = "idle"
    /\ fn = ""
    /\ fn' = "serialize_graph_report"
    /\ Dispatch(obj, method)
    /\ obj' = obj_after_labeling(obj)
    /\ UNCHANGED <<method, separate, args, csv, example_ids, generation>>

EntityStep ==
    /\ pc = "entities"
    /\ loop # <<>>
    /\ LET step == entities_iteration(work, method, ranges, report_dict, Head(loop))
           graph_obj == entities_after_node(work.at["entities"], Head(loop), method)
       IN  /\ work' = [work EXCEPT !.at["entities"] = graph_obj]
           /\ obj' = obj_sharing(obj, graph_obj)
           /\ IF step.kind = "raise"
              THEN Return(step) /\ UNCHANGED <<loop, report_dict>>
              ELSE /\ report_dict' = step.val
                   /\ loop' = Tail(loop)
                   /\ UNCHANGED <<pc, ret>>
    /\ UNCHANGED <<fn, method, separate, ranges, args, csv, example_ids, generation>>

EntityFinish ==
    /\ pc = "entities"
    /\ loop = <<>>
    /\ Return(Str(assemble(report_dict, separate)
                    \o anat_trailer(work.at["entities"], method)))
    /\ UNCHANGED <<fn, obj, method, separate, work, loop, ranges, report_dict, args, csv,
                   example_ids, generation>>

SubgraphStep ==
    /\ pc = "subgraphs"
    /\ loop # <<>>
    /\ LET step == subgraphs_iteration(work, ranges, report_dict, Head(loop))
       IN  IF step.kind = "raise"
           THEN Return(step) /\ UNCHANGED <<loop, report_dict>>
           ELSE /\ report_dict' = step.val
                /\ loop' = Tail(loop)
                /\ UNCHANGED <<pc, ret>>
    /\ UNCHANGED <<fn, obj, method, separate, work, ranges, args, csv, example_ids, generation>>

SubgraphFinish ==
    /\ pc = "subgraphs"
    /\ loop = <<>>
    /\ Return(Str(assemble(report_dict, separate)))
    /\ UNCHANGED <<fn, obj, method, separate, work, loop, ranges, report_dict, args, csv,
                   example_ids, generation>>

Next == Call \/ EntityStep \/ EntityFinish \/ SubgraphStep \/ SubgraphFinish

-----------------------------------------------------------------------------
(* The graph objects the calls are made on. *)

MaxPipelineRelations == 2
MaxEntities == 2
MaxKeys == 3

Methods == {"subgraphs", "no_sep", "with_anat", "with_@_anat", "bogus"}

Labels == {"OBS-DP", "OBS-U", "OBS-DA", "ANAT-DP"}

RelationTypes == {"located_at", "modify", "suggestive_of"}

SeqsUpTo(S, n) == UNION {[1..k -> S] : k \in 0..n}

Entity(label, tokens, relations, span) ==
    [label |-> label, tokens |-> tokens, relations |-> relations,
     start_ix |-> span[1], end_ix |-> span[2]]

IdsInOrder == <<"1", "2", "3", "10">>

TokensOf(id) ==
    CASE id = "1" -> "opacity"
      [] id = "2" -> "lung"
      [] id = "3" -> "left"
      [] id = "10" -> "effusion"

PlainText == <<"opacity", " ", "in", " ", "lung">>

GraphObject(text, entities) ==
    Dict(<<"text", "entities">>, [k \in {"text", "entities"} |->
                                    IF k = "text" THEN text ELSE entities])

\* entity "1" with every label and relations list, to "2" or to the missing "9"
RelationEntityMaps ==
    {Dict(keys, [id \in {"1", "2"} |->
                    IF id = "1" THEN Entity(l1, TokensOf("1"), relations, <<0, 1>>)
                    ELSE Entity(l2, TokensOf("2"), <<>>, <<2, 3>>)]) :
        l1 \in Labels, l2 \in {"ANAT-DP", "OBS-U"},
        relations \in SeqsUpTo(RelationTypes \X {"2", "9"}, MaxPipelineRelations),
        keys \in {<<"1", "2">>}}

SectionTexts ==
    {Join(<<"FINDINGS", ":", "no", "acute", "IMPRESSION", ":", "no", "normal">>),
     Join(<<"IMPRESSION", ":", "no", "acute", "FINDINGS", ":", "no", "normal">>),
     Join(<<"FINDINGS", ":", "no", "acute", "normal", "no", "acute", "normal">>),
     Join(<<"CONCLUSION", ":", "no", "acute", "normal", "no", "acute", "normal">>),
     Join(<<"FINDINGS", "AND", "IMPRESSION", ":", "no", "acute", "normal", "no">>),
     PlainText}

Spans == {<<2, 3>>, <<6, 7>>}

\* up to MaxEntities entities placed in the sections of a text, each after the
\* first either alone or modifying entity "1"
SectionEntityMaps ==
    UNION {
        {Dict(SubSeq(IdsInOrder, 1, n), [id \in {IdsInOrder[k] : k \in 1..n} |->
                Entity(choice[id][1], TokensOf(id),
                       IF choice[id][3] /\ id # "1" THEN <<<<"modify", "1">>>> ELSE <<>>,
                       choice[id][2])]) :
            choice \in [{IdsInOrder[k] : k \in 1..n} ->
                            {"OBS-DP", "ANAT-DP"} \X Spans \X BOOLEAN]}
        : n \in 0..MaxEntities}

ReportObjects ==
    {GraphObject(PlainText, entities) : entities \in RelationEntityMaps}
        \cup {GraphObject(text, entities) :
                text \in SectionTexts, entities \in SectionEntityMaps}

InitReport ==
    /\ Idle
    /\ args = <<>>
    /\ obj \in ReportObjects
    /\ method \in Methods
    /\ separate \in BOOLEAN

Spec == InitReport /\ [][Next]_vars

-----------------------------------------------------------------------------
(* Calls on objects of every key layout: with or without text, entities and   *)
(* labeler keys, in every insertion order.                                    *)

DispatchKeys == {"text", "entities", "labeler_1", "labeler_2", "my_labeler", "Labeler"}

SectionedText ==
    Join(<<"FINDINGS", ":", "no", "acute", "IMPRESSION", ":", "no", "normal">>)

\* the entity map stored under a key: each key has its own
EntitiesUnder(key) ==
    LET label == CASE key = "entities" -> "OBS-DP"
                   [] key = "labeler_1" -> "OBS-U"
                   [] key = "labeler_2" -> "OBS-DA"
                   [] key = "my_labeler" -> "ANAT-DP"
                   [] key = "Labeler" -> "OBS-DP"
        relations == IF key \in {"labeler_1", "Labeler"} THEN <<<<"located_at", "2">>>>
                     ELSE IF key = "labeler_2"
                     THEN <<<<"modify", "2">>, <<"located_at", "2">>>>
                     ELSE <<<<"modify", "2">>>>
    IN  Dict(<<"1", "2">>, [id \in {"1", "2"} |->
            IF id = "1" THEN Entity(label, TokensOf("1"), relations, <<2, 3>>)
            ELSE Entity("ANAT-DP", TokensOf("2"), <<>>, <<6, 7>>)])

ValueUnder(key) ==
    IF key = "text" THEN SectionedText
    ELSE IF key = "entities" THEN EntitiesUnder(key)
    ELSE Dict(<<"entities">>, [k \in {"entities"} |-> EntitiesUnder(key)])

IsInjective(keys) == \A i, j \in 1..Len(keys) : keys[i] = keys[j] => i = j

DispatchObjects ==
    {Dict(keys, [k \in Range(keys) |-> ValueUnder(k)]) :
        keys \in {ks \in SeqsUpTo(DispatchKeys, MaxKeys) : IsInjective(ks)}}

InitDispatch ==
    /\ Idle
    /\ args = <<>>
    /\ obj \in DispatchObjects
    /\ method \in Methods
    /\ separate \in BOOLEAN

SpecDispatch == InitDispatch /\ [][Next]_vars

\* the object has an entities key or a key containing "labeler"
HasLabels(o) == HasKey(o, "entities") \/ \E key \in DOMAIN o.at : Contains("labeler", key)

\* C1: on an object with labels and a method name outside the four, the call
\* returns the InvalidMethod signal -2: it does not raise, returns no string and
\* enters neither serializer.
C1_InvalidMethodSignal ==
    (HasLabels(obj) /\ method \notin {"subgraphs", "no_sep", "with_anat", "with_@_anat"}) =>
        /\ pc \in {"idle", "done"}
        /\ report_dict = EmptyReportDict
        /\ pc = "done" => (ret.kind = "signal" /\ ret.val = -2)

C1_Witness ==
    /\ pc = "done"
    /\ method = "bogus"
    /\ ~HasKey(obj, "entities")
    /\ HasKey(obj, "labeler_2")
    /\ ret.kind = "signal"
    /\ ret.val = -2

\* C2: on an object with no entities key and no key containing "labeler" the call
\* returns the MissingLabels signal -1, whatever the method and the flag; the
\* signal is neither the InvalidMethod signal nor a string.
C2_MissingLabelsSignal ==
    ~HasLabels(obj) =>
        /\ pc \in {"idle", "done"}
        /\ pc = "done" =>
            /\ ret.kind = "signal"
            /\ ret.val = -1
            /\ ret.val # ERROR_METHOD
            /\ ret.kind # "str"

C2_Witness ==
    /\ pc = "done"
    /\ obj.keys = <<"Labeler", "text">>
    /\ method = "bogus"
    /\ ret.kind = "signal"
    /\ ret.val = -1

SameOutcome(a, b) == a.kind = b.kind /\ a.val = b.val

\* C3: on an object with no entities key and some keys containing "labeler", the
\* call returns what it returns on the same object with entities set to the
\* entities of the smallest of these keys, in every insertion order of the keys.
C3_SmallestLabelerKey ==
    (pc = "done" /\ ~HasKey(obj, "entities") /\ HasLabels(obj)) =>
        LET labelers == {key \in DOMAIN obj.at : Contains("labeler", key)}
            smallest == CHOOSE a \in labelers : \A b \in labelers \ {a} : StrLess(a, b)
            given == SetItem(obj, "entities", obj.at[smallest].at["entities"])
        IN  SameOutcome(ret, serialize_graph_report(given, method, separate))

C3_Witness ==
    /\ pc = "done"
    /\ obj.keys = <<"labeler_2", "text", "labeler_1">>
    /\ method = "no_sep"
    /\ ret.kind = "str"
    /\ "uncertain" \in Range(ret.val)

-----------------------------------------------------------------------------
(* Claims about whole reports (specification Spec). *)

ExampleObject ==
    GraphObject(PlainText,
        Dict(<<"1", "2">>, [id \in {"1", "2"} |->
            IF id = "1"
            THEN Entity("OBS-DP", "opacity", <<<<"located_at", "2">>>>, <<0, 1>>)
            ELSE Entity("ANAT-DP", "lung", <<>>, <<2, 3>>)]))

\* C4: for the two-entity example, no_sep, separation off, the output is the line
\* "opacity located_at lung @ present" followed by the line "lung @ present".
C4_RoundTripLines ==
    (pc = "done" /\ obj = ExampleObject /\ method = "no_sep" /\ ~separate) =>
        /\ ret.kind = "str"
        /\ ret.val = <<"opacity", " ", "located_at", " ", "lung", " ", "@", " ", "present", "\n",
                       "lung", " ", "@", " ", "present", "\n">>

HasDanglingTarget(entities) ==
    \E id \in DOMAIN entities.at :
        \E r \in 1..Len(entities.at[id].relations) :
            ~HasKey(entities, entities.at[id].relations[r][2])

\* C6: with one of the four methods, an entity map with a dangling relation target
\* never yields a string: the call ends in a lookup error.
C6_DanglingTargetRaises ==
    (/\ pc = "done"
     /\ method \in {"subgraphs", "no_sep", "with_anat", "with_@_anat"}
     /\ HasDanglingTarget(obj.at["entities"])) =>
        (ret.kind = "raise" /\ ret.val = "KeyError")

-----------------------------------------------------------------------------
(* Calls of serialize_node on one entity with bounded relations lists. *)

NodeLabels == Labels \cup {"OBS", "U-DP", "U-DA"}

Stems == {<<"@", " ">>, <<"is", " ">>, <<>>, <<"@">>}

NodeGraph(label, relations) ==
    Dict(<<"1", "2", "3">>, [id \in {"1", "2", "3"} |->
        IF id = "1" THEN Entity(label, TokensOf("1"), relations, <<0, 1>>)
        ELSE Entity("ANAT-DP", TokensOf(id), <<>>, <<2, 3>>)])

InitNode ==
    /\ Idle
    /\ NoObject
    /\ args \in {<<NodeGraph(label, relations), "1", stem>> :
                    label \in NodeLabels,
                    relations \in SeqsUpTo(RelationTypes \X {"2", "3"}, MaxRelations),
                    stem \in Stems}

CallSerializeNode ==
    /\ fn = ""
    /\ fn' = "serialize_node"
    /\ ret' = serialize_node(args[1], args[2], args[3])
    /\ UNCHANGED <<pc, obj, method, separate, work, loop, ranges, report_dict, args, csv,
                   example_ids, generation>>

NextNode == CallSerializeNode

SpecNode == InitNode /\ [][NextNode]_vars

Rank(relation_type) ==
    CASE relation_type = "located_at" -> 1
      [] relation_type = "modify" -> 2
      [] relation_type = "suggestive_of" -> 3

\* the positions of a relations list ordered by (rank of the type, position)
PositionOrder(relations) ==
    CHOOSE p \in [1..Len(relations) -> 1..Len(relations)] :
        \A a, b \in 1..Len(relations) :
            a < b => KeyLess(<<Rank(relations[p[a]][1]), p[a]>>,
                             <<Rank(relations[p[b]][1]), p[b]>>)

\* C7: serialize_node renders the relations in the order given by sorting them on
\* (rank of the relation type, original position), also when a (type, target) pair
\* occurs more than once.
C7_RelationsInPositionOrder ==
    fn = "serialize_node" =>
        LET relations == args[1].at[args[2]].relations
            ordered == [k \in 1..Len(relations) |-> relations[PositionOrder(relations)[k]]]
        IN  SameOutcome(ret, render_node(args[1], args[2], ordered, args[3]))

\* C8: for an entity without relations serialize_node returns the tokens, one
\* space and the presence suffix: stem + "present" if the label contains "DP", else
\* stem + "uncertain" if it contains "U", else stem + "absent" if it contains "DA",
\* else nothing.
C8_NoRelationsTokensAndSuffix ==
    (fn = "serialize_node" /\ args[1].at[args[2]].relations = <<>>) =>
        LET label == args[1].at[args[2]].label
            word == IF Contains("DP", label) THEN <<"present">>
                    ELSE IF Contains("U", label) THEN <<"uncertain">>
                    ELSE IF Contains("DA", label) THEN <<"absent">>
                    ELSE <<>>
            suffix == IF word = <<>> THEN <<>> ELSE args[3] \o word
        IN  /\ ret.kind = "str"
            /\ ret.val = <<args[1].at[args[2]].tokens, " ">> \o suffix

C8_Witness ==
    /\ fn = "serialize_node"
    /\ args[1].at[args[2]].relations = <<>>
    /\ args[1].at[args[2]].label = "U-DA"
    /\ ret.kind = "str"
    /\ ret.val = <<"opacity", " ", "is", " ", "uncertain">>

-----------------------------------------------------------------------------
(* Calls of the section classifier on index ranges around three entities. *)

MaxIndex == 4

\* index ranges, -1 standing for a section that was not found
IndexRanges == (-1..MaxIndex) \X (-1..(MaxIndex + 1))

ClassifiedObject ==
    GraphObject(PlainText,
        Dict(<<"1", "2", "3">>, [id \in {"1", "2", "3"} |->
            Entity("OBS-DP", TokensOf(id), <<>>,
                   CASE id = "1" -> <<0, 1>>
                     [] id = "2" -> <<2, 3>>
                     [] id = "3" -> <<1, 4>>)]))

InitCategorize ==
    /\ Idle
    /\ NoObject
    /\ args \in {<<ClassifiedObject, findings_idx_range, impression_idx_range>> :
                    findings_idx_range \in IndexRanges,
                    impression_idx_range \in IndexRanges}

CallCategorizeNode ==
    /\ fn = ""
    /\ \E node \in DOMAIN args[1].at["entities"].at :
            /\ fn' = "categorize_node"
            /\ args' = <<args[1], node, args[2], args[3]>>
            /\ ret' = categorize_node(args[1], node, args[2], args[3])
    /\ UNCHANGED <<pc, obj, method, separate, work, loop, ranges, report_dict, csv,
                   example_ids, generation>>

CallCategorizeSubgraph ==
    /\ fn = ""
    /\ \E nodes \in SUBSET DOMAIN args[1].at["entities"].at :
            /\ fn' = "categorize_subgraph"
            /\ args' = <<args[1], [nodes |-> nodes, edges |-> {}], args[2], args[3]>>
            /\ ret' = categorize_subgraph(args[1], [nodes |-> nodes, edges |-> {}],
                                          args[2], args[3])
    /\ UNCHANGED <<pc, obj, method, separate, work, loop, ranges, report_dict, csv,
                   example_ids, generation>>

NextCategorize == CallCategorizeNode \/ CallCategorizeSubgraph

SpecCategorize == InitCategorize /\ [][NextCategorize]_vars

\* the documented precondition of both classifiers: one of the two sections
\* exists and the two do not begin at the same index
SectionsDelineated(findings_idx_range, impression_idx_range) ==
    /\ ~(findings_idx_range[1] = -1 /\ impression_idx_range[1] = -1)
    /\ findings_idx_range[1] # impression_idx_range[1]

\* the span of an entity lies in an index range: start >= range start, end < range end
SpanWithin(entity, idx_range) ==
    entity.start_ix >= idx_range[1] /\ entity.end_ix < idx_range[2]

\* C11: under its precondition categorize_node answers, without a FINDINGS range,
\* IMPRESSION iff the span lies in the impression range and FINDINGS otherwise;
\* with a FINDINGS range, FINDINGS iff the span lies in the findings range and
\* IMPRESSION otherwise.
C11_NodeSection ==
    (fn = "categorize_node" /\ SectionsDelineated(args[3], args[4])) =>
        LET entity == args[1].at["entities"].at[args[2]]
        IN  /\ ret.kind = "section"
            /\ ret.val \in {"FINDINGS", "IMPRESSION"}
            /\ args[3][1] = -1 => (ret.val = "IMPRESSION" <=> SpanWithin(entity, args[4]))
            /\ args[3][1] # -1 => (ret.val = "FINDINGS" <=> SpanWithin(entity, args[3]))

\* a node inside both ranges, which FINDINGS wins, and one outside a lone FINDINGS range
C11_Witness ==
    /\ fn = "categorize_node"
    /\ args[2] = "2"
    /\ args[3] = <<1, 4>>
    /\ args[4] = <<0, 5>>
    /\ ret = Section("FINDINGS")

-----------------------------------------------------------------------------
(* Calls of build_graph, get_subgraphs and serialize_subgraph on entity maps  *)
(* whose relation targets are entities of the map.                            *)

MaxGraphRelations == 2

\* entity IDs in the insertion order of the map, which is not their integer order
GraphIds == <<"2", "10", "1">>

GraphRelationTypes == {"located_at", "modify"}

Graph(G) == [kind |-> "graph", val |-> G]

Subgraphs(list) == [kind |-> "subgraphs", val |-> list]

\* the relations list of entity id, from (source, relation_type, target) triples
RECURSIVE RelationsOf(_, _)
RelationsOf(id, triples) ==
    IF triples = <<>> THEN <<>>
    ELSE (IF Head(triples)[1] = id
          THEN <<<<Head(triples)[2], Head(triples)[3]>>>> ELSE <<>>)
            \o RelationsOf(id, Tail(triples))

GraphEntityMap(n, labels, triples) ==
    Dict(SubSeq(GraphIds, 1, n), [id \in {GraphIds[k] : k \in 1..n} |->
            Entity(labels[id], TokensOf(id), RelationsOf(id, triples), <<0, 1>>)])

\* relations that join "2" and "10", and all three entities
ChainTriples ==
    {<<>>,
     <<<<"10", "modify", "2">>>>,
     <<<<"10", "modify", "1">>, <<"1", "located_at", "2">>>>}

GraphEntityMaps ==
    UNION {{GraphEntityMap(n, [id \in Range(GraphIds) |-> "OBS-DP"], triples) :
                triples \in SeqsUpTo({GraphIds[k] : k \in 1..n} \X GraphRelationTypes
                                        \X {GraphIds[k] : k \in 1..n},
                                     MaxGraphRelations)} :
           n \in 0..Len(GraphIds)}
      \cup {GraphEntityMap(Len(GraphIds), labels, triples) :
                labels \in [Range(GraphIds) -> Labels], triples \in ChainTriples}

InitGraph ==
    /\ Idle
    /\ args = <<>>
    /\ obj \in {GraphObject(PlainText, entities) : entities \in GraphEntityMaps}
    /\ method = ""
    /\ separate = FALSE

CallBuildGraph ==
    /\ fn = ""
    /\ fn' = "build_graph"
    /\ args' = <<obj>>
    /\ ret' = Graph(build_graph(obj))
    /\ UNCHANGED <<pc, obj, method, separate, work, loop, ranges, report_dict, csv,
                   example_ids, generation>>

CallGetSubgraphs ==
    /\ fn = ""
    /\ fn' = "get_subgraphs"
    /\ args' = <<build_graph(obj)>>
    /\ ret' = Subgraphs(get_subgraphs(build_graph(obj)))
    /\ UNCHANGED <<pc, obj, method, separate, work, loop, ranges, report_dict, csv,
                   example_ids, generation>>

CallSerializeSubgraph ==
    /\ fn = ""
    /\ LET G == build_graph(obj)
           subgraphs == get_subgraphs(G)
       IN  \E k \in 1..Len(subgraphs) :
                /\ fn' = "serialize_subgraph"
                /\ args' = <<subgraphs[k], G>>
                /\ ret' = serialize_subgraph(subgraphs[k], G)
    /\ UNCHANGED <<pc, obj, method, separate, work, loop, ranges, report_dict, csv,
                   example_ids, generation>>

NextGraph == CallBuildGraph \/ CallGetSubgraphs \/ CallSerializeSubgraph

SpecGraph == InitGraph /\ [][NextGraph]_vars

\* u has a relation to v or v has one to u in the entity map
Related(entities, u, v) ==
    \/ \E r \in 1..Len(entities.at[u].relations) : entities.at[u].relations[r][2] = v
    \/ \E r \in 1..Len(entities.at[v].relations) : entities.at[v].relations[r][2] = u

\* a chain of related entities leads from a to b
Connected(entities, a, b) ==
    \E path \in SeqsUpTo(DOMAIN entities.at, Cardinality(DOMAIN entities.at)) :
        /\ path # <<>>
        /\ path[1] = a
        /\ path[Len(path)] = b
        /\ \A i \in 1..(Len(path) - 1) : Related(entities, path[i], path[i + 1])

\* C13: the node sets of the components of get_subgraphs(build_graph(obj)) are
\* non-empty, pairwise disjoint and cover the entity IDs; two entities share a
\* component iff they are connected ignoring direction; a component has exactly
\* the edges between its nodes.
C13_ComponentsPartition ==
    fn = "get_subgraphs" =>
        LET entities == obj.at["entities"]
            ids == DOMAIN entities.at
            components == ret.val
        IN  /\ \A k \in 1..Len(components) : components[k].nodes # {}
            /\ \A j, k \in 1..Len(components) :
                    j # k => components[j].nodes \cap components[k].nodes = {}
            /\ UNION {components[k].nodes : k \in 1..Len(components)} = ids
            /\ \A a, b \in ids :
                    (\E k \in 1..Len(components) : {a, b} \subseteq components[k].nodes)
                        <=> Connected(entities, a, b)
            /\ \A k \in 1..Len(components) :
                    components[k].edges =
                        {e \in components[k].nodes \X components[k].nodes :
                            \E r \in 1..Len(entities.at[e[1]].relations) :
                                entities.at[e[1]].relations[r][2] = e[2]}

\* "2" is joined to "10" by an edge that enters it, and "1" stands alone
C13_Witness ==
    /\ fn = "get_subgraphs"
    /\ DOMAIN obj.at["entities"].at = Range(GraphIds)
    /\ obj.at["entities"].at["10"].relations = <<<<"modify", "2">>>>
    /\ obj.at["entities"].at["1"].relations = <<>>
    /\ Len(ret.val) = 2
    /\ ret.val[1].nodes = {"2", "10"}
    /\ ret.val[2].nodes = {"1"}

\* the nodes of a component in ascending order of their integer value
AscendingIds(nodes) ==
    CHOOSE s \in [1..Cardinality(nodes) -> nodes] :
        \A i, j \in 1..Cardinality(nodes) : i < j => int(s[i]) < int(s[j])

\* C16: serialize_subgraph returns the tokens of the nodes in ascending integer
\* order, each followed by a space, after "no " if the lowest absent-or-uncertain
\* node is absent, "maybe " if it is uncertain, and nothing if there is none.
C16_SubgraphLine ==
    fn = "serialize_subgraph" =>
        LET nodes == args[1].nodes
            label(n) == obj.at["entities"].at[n].label
            marked == {n \in nodes : Contains("DA", label(n)) \/ Contains("U", label(n))}
            lowest == CHOOSE n \in marked : \A m \in marked : int(n) <= int(m)
            prefix == IF marked = {} THEN <<>>
                      ELSE IF Contains("DA", label(lowest)) THEN <<"no", " ">>
                      ELSE <<"maybe", " ">>
            sorted == AscendingIds(nodes)
        IN  /\ ret.kind = "str"
            /\ ret.val = prefix \o Concat([k \in 1..Len(sorted) |->
                                            <<obj.at["entities"].at[sorted[k]].tokens, " ">>])

\* the uncertain "2" precedes the absent "10": one prefix, "maybe", at the start
C16_Witness ==
    /\ fn = "serialize_subgraph"
    /\ args[1].nodes = {"1", "2", "10"}
    /\ obj.at["entities"].at["1"].label = "ANAT-DP"
    /\ obj.at["entities"].at["2"].label = "OBS-U"
    /\ obj.at["entities"].at["10"].label = "OBS-DA"
    /\ ret = Str(<<"maybe", " ", "opacity", " ", "lung", " ", "effusion", " ">>)

\* C19: the graph of build_graph has one node per entity ID with its label and
\* tokens, and an edge u -> v carrying relation_type t iff u has a relation
\* (t, v), also when u has several relations to the same v.
C19_OneEdgePerRelation ==
    fn = "build_graph" =>
        LET entities == obj.at["entities"]
            ids == DOMAIN entities.at
            G == ret.val
        IN  /\ Range(G.nodes) = ids
            /\ Len(G.nodes) = Cardinality(ids)
            /\ \A id \in ids :
                    /\ G.attr[id].label = entities.at[id].label
                    /\ G.attr[id].tokens = entities.at[id].tokens
            /\ \A u, v \in ids : \A t \in RelationTypes :
                    (<<u, v>> \in DOMAIN G.edges /\ G.edges[<<u, v>>] = t)
                        <=> \E r \in 1..Len(entities.at[u].relations) :
                                entities.at[u].relations[r] = <<t, v>>

-----------------------------------------------------------------------------
(* Further statements about serialize_node (specification SpecNode). *)

\* C17: with more than one relation, all located_at, serialize_node returns the
\* source tokens, then "located_at <target tokens>" for every target in sorted
\* order if the label contains "DP" and nothing otherwise, then the suffix.
C17_LocatedAtOnly ==
    (/\ fn = "serialize_node"
     /\ Len(args[1].at[args[2]].relations) > 1
     /\ \A r \in 1..Len(args[1].at[args[2]].relations) :
            args[1].at[args[2]].relations[r][1] = "located_at") =>
        LET entity == args[1].at[args[2]]
            order == PositionOrder(entity.relations)
            located == IF Contains("DP", entity.label)
                       THEN Concat([k \in 1..Len(order) |->
                                <<"located_at", " ",
                                  args[1].at[entity.relations[order[k]][2]].tokens, " ">>])
                       ELSE <<>>
        IN  ret = Str(<<entity.tokens, " ">> \o located \o get_suffix(entity.label, args[3]))

-----------------------------------------------------------------------------
(* Body lines and trailer of the entity-level serializer (specification Spec). *)

\* the IDs of a key sequence that are in the set S, in the order of the keys
RECURSIVE KeysIn(_, _)
KeysIn(keys, S) ==
    IF keys = <<>> THEN <<>>
    ELSE (IF Head(keys) \in S THEN <<Head(keys)>> ELSE <<>>) \o KeysIn(Tail(keys), S)

\* the body line of an entity under a method: serialize_node with the method's
\* stem and a line end
BodyLine(entities, id, method_name) ==
    LET stem == IF method_name = "with_anat"
                THEN (IF Len(entities.at[id].relations) >= 1 THEN <<"is", " ">> ELSE <<>>)
                ELSE <<"@", " ">>
    IN  serialize_node(entities, id, stem).val \o <<"\n">>

BodyLines(entities, ids, method_name) ==
    Concat([k \in 1..Len(ids) |-> BodyLine(entities, ids[k], method_name)])

\* C18: under with_anat and with_@_anat an ANAT-DP entity has no body line and
\* its tokens stand once, in map order and comma-joined, in the final line
\* "Anatomical structures present: ..."; every other entity has one body line and
\* is not in that line, whatever the separation flag; under no_sep every entity
\* has a body line with stem "@ " and there is no final line.
C18_BodyAndTrailer ==
    (pc = "done" /\ ret.kind = "str" /\ method \in {"no_sep", "with_anat", "with_@_anat"}) =>
        LET entities == obj.at["entities"]
            anat == {id \in DOMAIN entities.at : entities.at[id].label = "ANAT-DP"}
            in_body == IF method = "no_sep" THEN DOMAIN entities.at
                       ELSE DOMAIN entities.at \ anat
            listed == KeysIn(entities.keys, anat)
            trailer == IF method = "no_sep" THEN <<>>
                       ELSE <<"Anatomical", " ", "structures", " ", "present:", " ">>
                            \o Concat([k \in 1..Len(listed) |->
                                    IF k = 1 THEN <<entities.at[listed[k]].tokens>>
                                    ELSE <<",", entities.at[listed[k]].tokens>>])
                            \o <<"\n">>
            body(S) == BodyLines(entities, KeysIn(entities.keys, S), method)
        IN  IF ~separate
            THEN ret.val = body(in_body) \o trailer
            ELSE \/ ret.val = <<"FINDINGS", " ", "AND", " ", "IMPRESSION", " ", "\n">>
                                \o body(in_body) \o trailer
                 \/ ret.val = <<"FINDINGS", " ", "\n">> \o body(in_body) \o trailer
                 \/ ret.val = <<"IMPRESSION", " ", "\n">> \o body(in_body) \o trailer
                 \/ \E S \in SUBSET in_body :
                        ret.val = <<"FINDINGS", " ", "\n">> \o body(S) \o <<"\n">>
                                    \o <<"IMPRESSION", " ", "\n">> \o body(in_body \ S)
                                    \o trailer

\* with_anat, sections on: an observation with a relation in the body, the
\* anatomy it points to in the final line only
C18_Witness ==
    /\ pc = "done"
    /\ method = "with_anat"
    /\ separate
    /\ obj.at["entities"].keys = <<"1", "2">>
    /\ obj.at["entities"].at["1"].label = "OBS-DP"
    /\ obj.at["entities"].at["1"].relations = <<<<"located_at", "2">>>>
    /\ obj.at["entities"].at["2"].label = "ANAT-DP"
    /\ ret = Str(<<"FINDINGS", " ", "AND", " ", "IMPRESSION", " ", "\n",
                   "opacity", " ", "located_at", " ", "lung", " ", " ", "is", " ", "present", "\n",
                   "Anatomical", " ", "structures", " ", "present:", " ", "lung", "\n">>)

-----------------------------------------------------------------------------
(* Calls of locate_findings_impression on bounded report texts. *)

MaxTextTokens == 4

TextVocab == {"FINDINGS", ":", "AND", "IMPRESSION", "CONCLUSION", "SUMMARY", "no"}

\* longer texts: both sections, a combined header before a separate one, and
\* impression-like headers in an order that is not their priority
LongerTexts ==
    {<<"FINDINGS", ":", "no", "IMPRESSION", ":", "no">>,
     <<"FINDINGS", "AND", "IMPRESSION", ":", "no", "IMPRESSION", ":", "no">>,
     <<"SUMMARY", ":", "no", "CONCLUSION", ":", "no">>,
     <<"SUMMARY", ":", "CONCLUSION", ":", "IMPRESSION", ":", "no">>,
     <<"CONCLUSION", ":", "no", "FINDINGS", ":", "no", "SUMMARY", ":", "no">>,
     <<"FINDINGS", ":", "IMPRESSION", ":", "no">>,
     <<"FINDINGS", ":", "no", "AND", "IMPRESSION", ":", "no">>}

ReportTexts ==
    {Join(tokens) : tokens \in SeqsUpTo(TextVocab, MaxTextTokens) \cup LongerTexts}

Ranges(pair) == [kind |-> "ranges", val |-> pair]

InitLocate ==
    /\ Idle
    /\ NoObject
    /\ args \in {<<report_text>> : report_text \in ReportTexts}

CallLocate ==
    /\ fn = ""
    /\ fn' = "locate_findings_impression"
    /\ ret' = Ranges(locate_findings_impression(args[1]))
    /\ UNCHANGED <<pc, obj, method, separate, work, loop, ranges, report_dict, args, csv,
                   example_ids, generation>>

NextLocate == CallLocate

SpecLocate == InitLocate /\ [][NextLocate]_vars

\* the header's words and a ":" token occur somewhere in the tokens
HeaderFound(tokens, header_name) ==
    \E i \in 0..Len(tokens) : HeaderAt(tokens, header_name, i)

FirstHeaderAt(tokens, header_name) ==
    Min({i \in 0..Len(tokens) : HeaderAt(tokens, header_name, i)})

\* the range of a section by itself: from the first occurrence of its header to
\* its section_end, and (-1, -1) when the header does not occur
RangeOfHeader(tokens, header_name) ==
    IF HeaderFound(tokens, header_name)
    THEN <<FirstHeaderAt(tokens, header_name),
           section_end(tokens, FirstHeaderAt(tokens, header_name), header_name)>>
    ELSE <<-1, -1>>

\* C20: with a combined header in the text both ranges are the range that starts
\* at it, whatever other headers occur; otherwise the FINDINGS range and the
\* range of the first of IMPRESSION, CONCLUSION, SUMMARY that occurs are each
\* computed by themselves, and a range is (-1, -1) exactly when its header does
\* not occur in the text.
C20_LocateRanges ==
    fn = "locate_findings_impression" =>
        LET tokens == Split(args[1])
            findings == ret.val[1]
            impression == ret.val[2]
            occurring == {k \in 1..Len(impression_headers) :
                            HeaderFound(tokens, impression_headers[k])}
        IN  IF HeaderFound(tokens, COMBINED_HEADER)
            THEN /\ findings = impression
                 /\ findings = RangeOfHeader(tokens, COMBINED_HEADER)
            ELSE /\ findings = RangeOfHeader(tokens, FINDINGS_HEADER)
                 /\ impression = IF occurring = {} THEN <<-1, -1>>
                                 ELSE RangeOfHeader(tokens, impression_headers[Min(occurring)])

-----------------------------------------------------------------------------
(* main: the batch loop over the examples of the input file. *)

MaxExamples == 3

ExampleIds == <<"1", "2", "3", "10">>

\* an example without entities and without labeler keys
UnlabeledExample ==
    Dict(<<"text">>, [k \in {"text"} |-> PlainText])

\* an example whose entity "1" points to the missing entity "9"
DanglingExample ==
    GraphObject(PlainText,
        Dict(<<"1">>, [id \in {"1"} |->
            Entity("OBS-DP", "opacity", <<<<"located_at", "9">>>>, <<0, 1>>)]))

BatchExamples == {ExampleObject, UnlabeledExample, DanglingExample}

\* args.method_name as given on the command line
MethodNames == {"no_sep", "NO_SEP", "Subgraphs", "bogus"}

ExamplesFiles ==
    UNION {{Dict(SubSeq(ExampleIds, 1, n), examples) :
                examples \in [{ExampleIds[k] : k \in 1..n} -> BatchExamples]} :
           n \in 0..MaxExamples}

HEADER_ROW == <<"id", "serialization", "full_report">>

InitBatch ==
    /\ Idle
    /\ NoObject
    /\ args \in {<<examples, method_name, separate_findings>> :
                    examples \in ExamplesFiles,
                    method_name \in MethodNames,
                    separate_findings \in BOOLEAN}

\* lines 28-35: the file is opened, the header row written, the loop entered
MainOpen ==
    /\ pc = "idle"
    /\ fn = ""
    /\ fn' = "main"
    /\ pc' = "main"
    /\ csv' = <<HEADER_ROW>>
    /\ example_ids' = args[1].keys
    /\ UNCHANGED <<obj, method, separate, work, loop, ranges, report_dict, args, ret,
                   generation>>

\* lines 35-37: serialize_graph_report is called on the next example
MainCall ==
    /\ pc = "main"
    /\ example_ids # <<>>
    /\ LET example == args[1].at[Head(example_ids)]
       IN  /\ obj' = obj_after_labeling(example)
           /\ method' = lower(args[2])
           /\ separate' = args[3]
           /\ Dispatch(example, lower(args[2]))
    /\ UNCHANGED <<fn, args, csv, example_ids, generation>>

\* lines 38-47: the call has ended; its error goes on, a signal becomes a
\* ValueError, a string is written as the example's row
MainRow ==
    /\ pc = "done"
    /\ fn = "main"
    /\ LET example_id == Head(example_ids)
           example == args[1].at[example_id]
           report_serialization == ret
       IN  IF report_serialization.kind = "raise"
           THEN pc' = "main_raised" /\ UNCHANGED <<ret, csv, example_ids>>
           ELSE IF ~HasKey(example, "text")
           THEN /\ ret' = Raise("KeyError")
                /\ pc' = "main_raised"
                /\ UNCHANGED <<csv, example_ids>>
           ELSE IF report_serialization = Signal(ERROR_LABELS)
                    \/ report_serialization = Signal(ERROR_METHOD)
           THEN /\ ret' = Raise("ValueError")
                /\ pc' = "main_raised"
                /\ UNCHANGED <<csv, example_ids>>
           ELSE /\ csv' = Append(csv, <<example_id, report_serialization.val,
                                        example.at["text"]>>)
                /\ example_ids' = Tail(example_ids)
                /\ pc' = "main"
                /\ ret' = ret
    /\ UNCHANGED <<fn, obj, method, separate, work, loop, ranges, report_dict, args,
                   generation>>

\* lines 47-49: the loop is over and the file closed
MainFinish ==
    /\ pc = "main"
    /\ example_ids = <<>>
    /\ pc' = "main_done"
    /\ UNCHANGED <<fn, obj, method, separate, work, loop, ranges, report_dict, args, ret, csv,
                   example_ids, generation>>

NextBatch ==
    \/ MainOpen \/ MainCall \/ MainRow \/ MainFinish
    \/ EntityStep \/ EntityFinish \/ SubgraphStep \/ SubgraphFinish

SpecBatch == InitBatch /\ [][NextBatch]_vars

\* C14: a failure on one item does not abort the run: main never ends with an
\* error, and when it has ended every example that serializes to a string has
\* its row (id, serialization, raw text) in the CSV file.
C14_FailureDoesNotAbort ==
    /\ pc # "main_raised"
    /\ pc \in {"main_done", "main_raised"} =>
            \A example_id \in DOMAIN args[1].at :
                LET example == args[1].at[example_id]
                    serialization == serialize_graph_report(example, lower(args[2]), args[3])
                IN  serialization.kind = "str" =>
                        \E k \in 1..Len(csv) :
                            csv[k] = <<example_id, serialization.val, example.at["text"]>>

-----------------------------------------------------------------------------
(* The input object of serialize_graph_report (specification SpecDispatch). *)

\* C15: no step of a call of serialize_graph_report changes the object it was
\* given, whatever the outcome: no key is added or removed (no entities key for
\* a multi-labeler object), no entity and no relations list is modified.
C15_InputUnchanged == [][obj' = obj]_vars

\* a multi-labeler object serialized entity by entity over relations that are
\* not in sorted order: the call has ended with a string, the serializer worked
\* on a dict with an entities key, and the object has none
C15_Witness ==
    /\ pc = "done"
    /\ ret.kind = "str"
    /\ method \in EntityMethods
    /\ ~HasKey(obj, "entities")
    /\ HasKey(work, "entities")
    /\ labeler_keys(obj)[1] = "labeler_2"
    /\ sorted_relations(work.at["entities"].at["1"].relations)
            # work.at["entities"].at["1"].relations

-----------------------------------------------------------------------------
(* The guard of the two loops against the classifiers' precondition. *)

\* C21: through serialize_graph_report no call ends in the ValueError that
\* categorize_node raises for absent or coinciding sections: while a loop runs,
\* either its ranges send every item to the merged bucket or they satisfy the
\* classifiers' precondition, and the classifier answers the next item with a
\* section or with the KeyError of an unknown node, never with ValueError.
C21_NoAmbiguousSections ==
    /\ ret # Raise("ValueError")
    /\ (pc \in {"entities", "subgraphs"} /\ loop # <<>> /\ ~sections_unified(ranges)) =>
            /\ SectionsDelineated(ranges[1], ranges[2])
            /\ pc = "entities" =>
                    categorize_node(work, Head(loop), ranges[1], ranges[2])
                        # Raise("ValueError")
            /\ pc = "subgraphs" =>
                    categorize_subgraph(work, Head(loop), ranges[1], ranges[2])
                        # Raise("ValueError")

\* a finished entity-level call on a text with the combined header, whose two
\* ranges begin at the same index
C21_Witness ==
    /\ fn = "serialize_graph_report"
    /\ pc = "done"
    /\ method = "no_sep"
    /\ ret.kind = "str"
    /\ ranges[1][1] = ranges[2][1]
    /\ ranges[1][1] # -1
    /\ Len(work.at["entities"].keys) = 2

-----------------------------------------------------------------------------
(* What one loop iteration appends to the accumulators. *)

SectionBuckets == {"FINDINGS", "IMPRESSION", "FINDINGS AND IMPRESSION"}

\* the part of after that follows before, when after begins with before
Appended(before, after) == SubSeq(after, Len(before) + 1, Len(after))

\* the lines of an accumulator, each without its line feed
RECURSIVE LinesFrom(_, _)
LinesFrom(text, line) ==
    IF text = <<>> THEN (IF line = <<>> THEN <<>> ELSE <<line>>)
    ELSE IF Head(text) = "\n" THEN <<line>> \o LinesFrom(Tail(text), <<>>)
    ELSE LinesFrom(Tail(text), Append(line, Head(text)))

Occurrences(line, lines) == Cardinality({i \in 1..Len(lines) : lines[i] = line})

\* the same lines, each as often, whatever the order
SameLines(a, b) ==
    /\ Len(a) = Len(b)
    /\ \A i \in 1..Len(a) : Occurrences(a[i], a) = Occurrences(a[i], b)

\* the step appended one and the same string to the unsectioned accumulator and
\* to exactly one section bucket, and left the other buckets alone
StepMirrored ==
    \E b \in SectionBuckets :
        /\ report_dict'["report"] =
                report_dict["report"] \o Appended(report_dict["report"], report_dict'["report"])
        /\ report_dict'[b] =
                report_dict[b] \o Appended(report_dict["report"], report_dict'["report"])
        /\ \A other \in SectionBuckets \ {b} : report_dict'[other] = report_dict[other]

\* the merged bucket and the FINDINGS/IMPRESSION buckets are not both in use
BucketsExclusive(rd) ==
    rd["FINDINGS AND IMPRESSION"] = <<>> \/ (rd["FINDINGS"] = <<>> /\ rd["IMPRESSION"] = <<>>)

\* the lines of the three buckets together are the lines of the unsectioned accumulator
BucketsCoverReport(rd) ==
    SameLines(LinesFrom(rd["report"], <<>>),
              LinesFrom(rd["FINDINGS"], <<>>) \o LinesFrom(rd["IMPRESSION"], <<>>)
                \o LinesFrom(rd["FINDINGS AND IMPRESSION"], <<>>))

\* C22: every iteration of either loop appends to one section bucket exactly what
\* it appends to the unsectioned accumulator; the merged bucket is never in use
\* together with FINDINGS or IMPRESSION; so the buckets' lines together are the
\* lines of the unsectioned accumulator.
C22_BucketsMirrorReport ==
    [][(pc \in {"entities", "subgraphs"} /\ loop # <<>> /\ pc' = pc) =>
            /\ StepMirrored
            /\ BucketsExclusive(report_dict')
            /\ BucketsCoverReport(report_dict')]_vars

-----------------------------------------------------------------------------
(* The shape of the ranges the locator returns. *)

\* the number of words of the header that stands at index start
HeaderWordsAt(tokens, start) ==
    IF HeaderAt(tokens, COMBINED_HEADER, start) THEN Len(Split(COMBINED_HEADER))
    ELSE Len(Split(FINDINGS_HEADER))

\* a header and its colon stand at start, at least one token follows the colon
\* before end, and end does not pass the last token
ProperRange(tokens, range) ==
    /\ 0 <= range[1]
    /\ Item(tokens, range[1] + HeaderWordsAt(tokens, range[1])) = ":"
    /\ range[1] + HeaderWordsAt(tokens, range[1]) + 1 < range[2]
    /\ range[2] <= Len(tokens)

\* C23: each range returned by locate_findings_impression is (-1, -1) or begins
\* at a header at index 0 or later and ends after at least one token past the
\* header's colon, at most at the number of tokens; so a start is -1 exactly
\* when its end is -1.
C23_RangesWellFormed ==
    fn = "locate_findings_impression" =>
        \A k \in 1..2 :
            \/ ret.val[k] = <<-1, -1>>
            \/ ProperRange(Split(args[1]), ret.val[k])

\* section_end met "IMPRESSION :" right after "FINDINGS :", where backtracking
\* leads to the token after the FINDINGS colon, and went on to the last token
C23_Witness ==
    /\ fn = "locate_findings_impression"
    /\ Split(args[1]) = <<"FINDINGS", ":", "IMPRESSION", ":", "no">>
    /\ ret.val = <<<<0, 5>>, <<2, 5>>>>

-----------------------------------------------------------------------------
(* The generation layer (src/gpt-prompts-for-report-generation/main.py): main *)
(* sends the prompts that have no report in the cache to the model, in rounds. *)
(* A report ID and a file name are sequences of atoms: words, "/", "_" and the *)
(* extensions ".txt" and ".json".                                              *)

MaxReports == 3

\* the default of main's parameter
max_global_iter == 3

\* s.replace(old, new) for a single-atom old
replace(s, old, new) == [i \in DOMAIN s |-> IF s[i] = old THEN new ELSE s[i]]

\* the name of the file write_report writes for an ID
report_file(radgraph_id) == replace(radgraph_id, "/", "_")

\* the name of the file that records the in-context examples
icl_file(id) == replace(id, ".txt", ".json")

\* glob.glob(os.path.join(cache_directory, "*.txt")): "*" matches no leading "."
glob_txt(files) ==
    {fname \in files : Len(fname) > 1 /\ fname[Len(fname)] = ".txt"}

generated_radgraph_ids(files) == {replace(fname, "_", "/") : fname \in glob_txt(files)}

reports_remaining(radgraph_ids, files) ==
    Range(radgraph_ids) \ generated_radgraph_ids(files)

\* the queue and the count that reduce_prompts_queue leaves
reduce_prompts_queue(radgraph_ids, queue, files) ==
    LET remains(key) == key \in reports_remaining(radgraph_ids, files)
    IN  [prompts |-> SelectSeq(queue, remains),
         generated |-> Len(radgraph_ids)
                        - Cardinality(reports_remaining(radgraph_ids, files))]

\* the key under which write_report looks up the in-context examples of an ID
icl_key(radgraph_id) == replace(report_file(radgraph_id), "_", "/")

\* the files in the cache after write_report has received a completion
cache_after_write(files, radgraph_id, examples_per_generation) ==
    files \cup {report_file(radgraph_id)}
          \cup (IF examples_per_generation > 0
                THEN {icl_file(report_file(radgraph_id))} ELSE {})

ReportIds ==
    <<(<<"s1", ".txt">>), (<<"p1", "/", "s2", ".txt">>), (<<"p1", "_", "s2", ".txt">>),
      (<<"s3">>), (<<"p2", "/", "s4", ".txt">>)>>

\* the ID columns of the input CSV: up to MaxReports of the IDs, in their order
IdColumns ==
    {SelectSeq(ReportIds, LAMBDA id : id \in S) :
        S \in {T \in SUBSET Range(ReportIds) : Cardinality(T) <= MaxReports}}

InitGeneration ==
    /\ pc = "idle"
    /\ fn = ""
    /\ NoObject
    /\ work = EmptyDict
    /\ loop = <<>>
    /\ ranges = NoRanges
    /\ report_dict = EmptyReportDict
    /\ ret = None
    /\ csv = <<>>
    /\ example_ids = <<>>
    /\ args \in {<<radgraph_ids, examples_per_generation>> :
                    radgraph_ids \in IdColumns, examples_per_generation \in {0, 1}}
    /\ cache \in SUBSET {report_file(args[1][i]) : i \in 1..Len(args[1])}
    /\ prompts = <<>>
    /\ pool = {}
    /\ num_reports_generated = 0
    /\ global_iter = 0

\* main, lines 135-156: the prompts of all IDs, reduced by what the cache holds
GenerationMain ==
    /\ pc = "idle"
    /\ fn = ""
    /\ fn' = "generation.main"
    /\ LET reduced == reduce_prompts_queue(args[1], args[1], cache)
       IN  /\ prompts' = reduced.prompts
           /\ num_reports_generated' = reduced.generated
    /\ global_iter' = 0
    /\ pc' = "gen_loop"
    /\ UNCHANGED <<obj, method, separate, work, loop, ranges, report_dict, args, ret, csv,
                   example_ids, cache, pool>>

\* lines 157-161: a round begins, the pool receives the keys of prompts
GenerationRound ==
    /\ pc = "gen_loop"
    /\ num_reports_generated < Len(args[1])
    /\ global_iter < max_global_iter
    /\ global_iter' = global_iter + 1
    /\ pool' = Range(prompts)
    /\ pc' = "gen_pool"
    /\ UNCHANGED <<fn, obj, method, separate, work, loop, ranges, report_dict, args, ret, csv,
                   example_ids, prompts, cache, num_reports_generated>>

\* write_report in a worker of the pool, on any ID the pool has still to do: the
\* lookup of the in-context examples may fail, which ends main; the model may
\* fail, which writes nothing; otherwise the files are written
WriteReport ==
    /\ pc = "gen_pool"
    /\ \E radgraph_id \in pool :
        IF args[2] > 0 /\ icl_key(radgraph_id) \notin Range(args[1])
        THEN /\ ret' = Raise("KeyError")
             /\ pc' = "gen_raised"
             /\ UNCHANGED <<cache, pool>>
        ELSE \E completed \in BOOLEAN :
                /\ cache' = IF completed THEN cache_after_write(cache, radgraph_id, args[2])
                            ELSE cache
                /\ pool' = pool \ {radgraph_id}
                /\ UNCHANGED <<pc, ret>>
    /\ UNCHANGED <<fn, obj, method, separate, work, loop, ranges, report_dict, args, csv,
                   example_ids, prompts, num_reports_generated, global_iter>>

\* lines 163-165: the pool is done, the queue is reduced and the reports counted
GenerationReduce ==
    /\ pc = "gen_pool"
    /\ pool = {}
    /\ LET reduced == reduce_prompts_queue(args[1], prompts, cache)
       IN  /\ prompts' = reduced.prompts
           /\ num_reports_generated' = reduced.generated
    /\ pc' = "gen_loop"
    /\ UNCHANGED <<fn, obj, method, separate, work, loop, ranges, report_dict, args, ret, csv,
                   example_ids, cache, pool, global_iter>>

\* line 157: the loop ends
GenerationFinish ==
    /\ pc = "gen_loop"
    /\ ~(num_reports_generated < Len(args[1]) /\ global_iter < max_global_iter)
    /\ pc' = "done"
    /\ UNCHANGED <<fn, obj, method, separate, work, loop, ranges, report_dict, args, ret, csv,
                   example_ids, generation>>

NextGeneration ==
    GenerationMain \/ GenerationRound \/ WriteReport \/ GenerationReduce \/ GenerationFinish

SpecGeneration == InitGeneration /\ [][NextGeneration]_vars

\* the IDs of the input that have no report file in the cache
Unwritten(radgraph_ids, files) ==
    {id \in Range(radgraph_ids) : report_file(id) \notin files}

\* C24: whenever main has reduced the queue, the queue holds exactly the IDs
\* that have no report file in the cache and the count is the number of IDs that
\* have one; so a round begins only while some report is not written, and it
\* sends to the model only IDs whose report is not written.
C24_QueueIsUnwritten ==
    [][/\ pc' = "gen_loop" =>
            /\ Range(prompts') = Unwritten(args[1], cache')
            /\ num_reports_generated' = Len(args[1]) - Cardinality(Unwritten(args[1], cache'))
       /\ (pc = "gen_loop" /\ pc' = "gen_pool") =>
            /\ Unwritten(args[1], cache) # {}
            /\ pool' = Unwritten(args[1], cache)]_vars

=============================================================================
